---- MODULE Spec2Model ----
(***************************************************************************)
(* Schnapsen Duo: the rule engine (schnapsen-rs/src/lib.rs), the event      *)
(* journal (schnapsen-duo-server/src/events/event_logger.rs) and the exit   *)
(* path of the match orchestrator (schnapsen-duo-server/src/match_manager). *)
(*                                                                         *)
(* Four specifications share the module's variables:                       *)
(*   Spec        the rule engine driven by its commands                    *)
(*   SpecJournal the event journal: log and events_since                   *)
(*   SpecExit    concurrent calls of WriteMatchManager::exit               *)
(*   SpecMatch   the orchestrator: auth, disconnect and the timeout tasks  *)
(***************************************************************************)
EXTENDS Integers, Sequences, FiniteSets, TLC

\* ------------------------------------------------------------------ bounds

\* Number of shuffles the deck is drawn from at construction.
NumDecks == 2
\* A play_card input is one of the first MaxPlayChoice cards of a hand.
MaxPlayChoice == 2
\* Plays of a card that is not the first playable card, per run.
MaxAltPlays == 1
\* Successful draw_card / cutt_deck / take_cards commands sent by clients, per run.
MaxExtraCmds == 1
\* Largest argument of cutt_deck and take_cards_til.
MaxCutArg == 1
\* Points a player may hold from earlier deals when a deal starts
MaxCarried == 4
\* Entries logged to the journal, per run.
MaxJournal == 3
\* Timestamps of journal entries are 1..MaxTs; queries ask for 0..MaxTs + 1.
MaxTs == 3
\* Calls of exit, per run.
MaxExitCalls == 3
\* Callbacks registered with on_exit, per run.
MaxCallbacks == 2
\* Sockets that connect to a match, per run.
MaxSockets == 3
\* await_timeout tasks of a match, per run (the two of the initial-join gate
\* included).
MaxTimers == 5
\* The observer tasks that are followed are those of the first MaxObserved
\* events of a command.
MaxObserved == 4
\* Cards played through a socket in a run of the orchestrator.
MaxMatchPlays == 1
\* min_players, the argument of WriteMatchManager::create, is 1..MaxMinPlayers.
MaxMinPlayers == 2
MaxReauth == 1
MaxUnknown == 1

\* --------------------------------------------------------------- constants

Jack == 2
Queen == 3
King == 4
Ten == 10
Ace == 11
Twenty == 20
Forty == 40
DeckSize == 20
HandSize == 5
WinPoints == 66
HalfPoints == 33
MatchPoints == 7
\* AtomicI8: the largest value of WriteMatchManager.exited
I8Max == 127

\* ------------------------------------------------------------------- cards

Suits == 0..3
Values == {Jack, Queen, King, Ten, Ace}
Cards == [value : Values, suit : Suits]
PlayerIds == {1, 2}
NoPlayer == 0

Other(p) == 3 - p

Contains(seq, x) == \E i \in DOMAIN seq : seq[i] = x

Range(seq) == {seq[i] : i \in DOMAIN seq}

NoRepeats(seq) == \A i, j \in DOMAIN seq : i # j => seq[i] # seq[j]

\* populate_deck before the shuffle: per suit the values 10, 11, 2, 3, 4.
ValueOrder == <<Ten, Ace, Jack, Queen, King>>

UnshuffledDeck == [i \in 1..DeckSize |->
                     [value |-> ValueOrder[((i - 1) % 5) + 1], suit |-> (i - 1) \div 5]]

\* deck.shuffle(&mut rng): some permutation of the 20 cards.  The model draws it
\* from the family i |-> (Mult * i + Shift) mod 20, Mult coprime to 20.
Mults == <<3, 7, 9, 11, 13, 17, 19, 1>>

ShuffledDeck(k) == [i \in 1..DeckSize |->
                      UnshuffledDeck[((Mults[(k % 8) + 1] * (i - 1) + 7 * k) % DeckSize) + 1]]

\* ------------------------------------------------------------------- state

VARIABLES
    players,        \* SchnapsenDuo.players: per player the fields of models::Player
    deck,           \* SchnapsenDuo.deck, top = last
    active,         \* SchnapsenDuo.active (NoPlayer = None)
    trump,          \* SchnapsenDuo.trump (<<>> = None)
    taken_trump,    \* SchnapsenDuo.taken_trump (<<>> = None)
    closed_talon,   \* SchnapsenDuo.closed_talon (NoPlayer = None)
    stack,          \* SchnapsenDuo.stack
    panicked,       \* a command panicked: the instance mutex is poisoned
    events,         \* the events the last command emitted, in emission order
    lastCmd,        \* the last command called: [name, player]
    lastRes,        \* what it returned: "Ok" or the PlayerError
    distributed,    \* start_match has dealt
    altPlays,       \* plays of a card other than the first playable one so far
    extraCmds,      \* successful draw / cutt / take commands so far
    pendingRounds,  \* winners of Result events whose on_match_result has not run
    pendingFinal,   \* FinalResult events whose handler task has not run
    returned,       \* what a function applied to the instance returned (<<>> = not applied)
    journal,        \* EventLogger.events: <<[user, ts, id]>>
    replay,         \* the result of the last events_since
    query,          \* the arguments of the last events_since
    exited,         \* WriteMatchManager.exited
    callbacks,      \* WriteMatchManager.on_exit_callbacks
    cbLock,         \* holder of the on_exit_callbacks mutex (0 = free)
    pc,             \* per exit call: its position in exit
    sawExited,      \* per exit call: the value of exited it loaded
    invokedBy,      \* per exit call: the callbacks it invoked, in order
    late,           \* per exit call: it began after another call had returned
    invoked,        \* per callback: how often it was invoked
    registered,     \* callbacks registered so far
    regBeforeExit,  \* callbacks registered while exited was still 0
    write_connected,        \* WriteMatchManager.write_connected: per player
                            \* <<>> (no key) or <<the set of its sockets>>
    awaiting_reconnection,  \* per player the task that holds the receiver of
                            \* the stored Sender (0 = no entry)
    started,        \* WriteMatchManager.started
    min_players,    \* WriteMatchManager.min_players
    bummerl,        \* WriteMatchManager.bummerl
    timers,         \* the await_timeout tasks: [kind, player, st, signalled, reauthed, live]
    authPc,         \* per socket: the position of its handle_auth
    sockOf,         \* per socket: the player of the token it sent (0 = none)
    alive,          \* sockets with a disconnect handler that are connected
    regs,           \* per player: callbacks registered by setup_wait_for_move
    timeouts,       \* user_ids of the "timeout" messages emitted to sockets
    exitReason,     \* what exit handed to the callbacks (<<>> = not yet)
    authOrder,      \* the players in the order of their first auth
    matchPlays      \* cards played through sockets so far

reVars == <<players, deck, active, trump, taken_trump, closed_talon, stack>>
reCtl == <<panicked, events, lastCmd, lastRes, distributed, altPlays, extraCmds,
          pendingRounds, pendingFinal, returned>>
ejVars == <<journal, replay, query>>
exitCtl == <<callbacks, cbLock, pc, sawExited, invokedBy, late, invoked,
             registered, regBeforeExit>>
mmVars == <<write_connected, awaiting_reconnection, started, min_players, bummerl, timers,
            authPc, sockOf, alive, regs, timeouts, exitReason, authOrder, matchPlays>>
moVars == <<exited, exitCtl, mmVars>>
vars == <<reVars, reCtl, ejVars, moVars>>

\* ------------------------------------------------------------- rule engine

\* Player::new
NewPlayer == [cards |-> <<>>, playable_cards |-> <<>>, tricks |-> <<>>,
              announcements |-> <<>>, announcable |-> <<>>,
              possible_trump_swap |-> <<>>, points |-> 0]

\* Player::reset: points, playable_cards and possible_trump_swap are kept.
reset(pl) == [pl EXCEPT !.cards = <<>>, !.tricks = <<>>,
                        !.announcements = <<>>, !.announcable = <<>>]

\* The instance a command runs on, with the events it has emitted so far.
RE == [players |-> players, deck |-> deck, active |-> active, trump |-> trump,
       taken_trump |-> taken_trump, closed_talon |-> closed_talon, stack |-> stack,
       ev |-> <<>>, panicked |-> FALSE]

\* notify_pub / notify_priv: to = 0 is public, otherwise the addressee.
notify_pub(s, name, arg) == [s EXCEPT !.ev = Append(@, [to |-> 0, name |-> name, arg |-> arg])]

notify_priv(s, p, name, arg) == [s EXCEPT !.ev = Append(@, [to |-> p, name |-> name, arg |-> arg])]

\* A private notification that is sent only under a condition
notify_priv_if(s, cond, p, name, arg) == IF cond THEN notify_priv(s, p, name, arg) ELSE s

RECURSIVE notify_priv_each(_, _, _, _)
notify_priv_each(s, p, name, args) ==
    IF args = <<>> THEN s
    ELSE notify_priv_each(notify_priv(s, p, name, Head(args)), p, name, Tail(args))

\* The trump suit as get_winner, can_announce_40 and find_playable_cards read it:
\* trump, else taken_trump.1 (the code unwraps; -1 stands for the panic, which no
\* run reaches: a card is compared only after the distribution set the trump).
TrumpSuit(s) == IF s.trump # <<>> THEN s.trump[1].suit
                ELSE IF s.taken_trump # <<>> THEN s.taken_trump[1].card.suit
                ELSE 0 - 1

\* A get_winner that compares the values before it looks at the suits
get_winner_by_value(s, enemyP, enemyCard, activeP, activeCard) ==
    IF activeCard.value > enemyCard.value THEN activeP ELSE enemyP

\* get_winner: players[0] is the lead (enemy), players[1] the active player.  The
\* suit and value comparison reads the stack, not the two cards passed in.
get_winner(s, enemyP, enemyCard, activeP, activeCard) ==
    LET enemy_is_trump == enemyCard.suit = TrumpSuit(s)
        active_is_trump == activeCard.suit = TrumpSuit(s)
        first == s.stack[1]
        last == s.stack[Len(s.stack)]
    IN IF ~active_is_trump /\ enemy_is_trump THEN enemyP
       ELSE IF active_is_trump /\ ~enemy_is_trump THEN activeP
       ELSE IF last.suit # first.suit THEN enemyP
       ELSE IF last.value > first.value THEN activeP
       ELSE enemyP

\* is_active, guarded by active.is_none() at every call
is_active(s, p) == s.active # NoPlayer /\ s.active = p

\* get_non_active_player
get_non_active_player(s) == Other(s.active)

\* A find_playable_cards that forces nothing
forced_cards_none(s, cards, forcing_color) == cards

\* find_playable_cards, lines 1145-1178: the cards that follow the suit of the
\* first stack card, else the trumps, once the talon is closed or used up
forced_cards(s, cards, forcing_color) ==
    IF s.stack # <<>> /\ (s.taken_trump # <<>> \/ s.closed_talon # NoPlayer)
    THEN IF forcing_color = <<>>
         THEN SelectSeq(cards, LAMBDA c : c.suit = TrumpSuit(s))
         ELSE forcing_color
    ELSE cards

\* find_playable_cards, lines 1184-1207: with a closed talon the cards that win
\* the trick, when there are any
winning_cards(s, p, playable, gonna_win) ==
    IF s.closed_talon # NoPlayer /\ s.stack # <<>> /\ gonna_win # <<>>
    THEN gonna_win
    ELSE playable

\* find_playable_cards, from the playable cards on
playable_or_winning(s, p, playable) ==
    winning_cards(s, p, playable,
        SelectSeq(playable,
            LAMBDA c : get_winner(s, get_non_active_player(s), s.stack[1], s.active, c) = p))

\* find_playable_cards, from the forced cards on: none forced, all playable
playable_from(s, p, cards, base) ==
    playable_or_winning(s, p, IF base = <<>> THEN cards ELSE base)

find_playable_cards(s, p) ==
    playable_from(s, p, s.players[p].cards,
        forced_cards(s, s.players[p].cards,
            SelectSeq(s.players[p].cards, LAMBDA c : c.suit = s.stack[1].suit)))

\* notify_changes_playable_cards: CardPlayable for the new ones, then
\* CardNotPlayable for the ones that went.
notify_changes_playable_cards(s, p, playable) ==
    notify_priv_each(
        notify_priv_each(s, p, "CardPlayable",
            SelectSeq(playable, LAMBDA c : ~Contains(s.players[p].playable_cards, c))),
        p, "CardNotPlayable",
        SelectSeq(s.players[p].playable_cards, LAMBDA c : ~Contains(playable, c)))

\* update_playable_cards, lines 1136-1139: notify the changes, store the cards
set_playable_cards(s, p, playable) ==
    [notify_changes_playable_cards(s, p, playable)
       EXCEPT !.players[p].playable_cards = playable]

update_playable_cards(s, p) == set_playable_cards(s, p, find_playable_cards(s, p))

\* can_swap_trump: the first Jack of the trump suit in the hand
\* Option of the first element of a sequence
first_of(seq) == IF seq = <<>> THEN <<>> ELSE <<seq[1]>>

can_swap_trump(s, p) ==
    IF s.active = NoPlayer \/ s.trump = <<>> \/ ~is_active(s, p)
       \/ s.stack # <<>> \/ s.closed_talon # NoPlayer
    THEN <<>>
    ELSE first_of(SelectSeq(s.players[p].cards,
                    LAMBDA c : c.suit = s.trump[1].suit /\ c.value = Jack))

\* notify_swap_trump_check: the change of the possible swap, old against new
notify_swap_trump_check(s, p, old, swap) ==
    IF swap # <<>>
    THEN IF old # <<>> THEN s
         ELSE notify_priv(s, p, "TrumpChangePossible", swap[1])
    ELSE IF old # <<>> THEN notify_priv(s, p, "TrumpChangeImpossible", old[1])
         ELSE s

\* update_swap_trump, from the result of can_swap_trump on
set_swap_trump(s, p, swap) ==
    notify_priv_if(
        [notify_swap_trump_check(s, p, s.players[p].possible_trump_swap, swap)
           EXCEPT !.players[p].possible_trump_swap = swap],
        swap # <<>>, p, "AllowSwapTrump", 0)

update_swap_trump(s, p) == set_swap_trump(s, p, can_swap_trump(s, p))


\* One suit's marriage in can_announce_20: the first two cards of that suit in
\* the hand that are a Queen or a King.
first_pair(qk) == IF Len(qk) >= 2 THEN << <<qk[1], qk[2]>> >> ELSE <<>>

marriage_of(cards, su) ==
    first_pair(SelectSeq(cards,
                 LAMBDA c : c.suit = su /\ (c.value = Queen \/ c.value = King)))

can_announce_20(s, p) ==
    IF s.active = NoPlayer \/ ~is_active(s, p) THEN <<>>
    ELSE marriage_of(s.players[p].cards, 0) \o marriage_of(s.players[p].cards, 1)
         \o marriage_of(s.players[p].cards, 2) \o marriage_of(s.players[p].cards, 3)

\* The first announcable pair, whatever its suit
can_announce_40_any(s, p) == first_of(can_announce_20(s, p))

\* can_announce_40: the first announcable pair of the trump suit
can_announce_40(s, p) ==
    first_of(SelectSeq(can_announce_20(s, p), LAMBDA pr : pr[1].suit = TrumpSuit(s)))

Announcement(pair, kind) == [cards |-> pair, announce_type |-> kind]

\* models::has_announcable: same kind and same suit of the first card
has_announcable(data, check) ==
    \E i \in DOMAIN data : /\ data[i].announce_type = check.announce_type
                           /\ data[i].cards[1].suit = check.cards[1].suit

\* notify_announcable_props, first loop: the stored announcements that are no
\* longer possible.  r = [s, acc]: the instance and the local `announcable`.
\* One pass of the first loop of notify_announcable_props
drop_one(r, p, a, new) ==
    IF ~has_announcable(new, a)
    THEN [s |-> notify_priv(r.s, p, "CannotAnnounce", a),
          acc |-> SelectSeq(r.acc,
                     LAMBDA x : x.announce_type # a.announce_type
                                /\ x.cards[1].suit # a.cards[1].suit)]
    ELSE r

RECURSIVE drop_announcable(_, _, _, _)
drop_announcable(r, p, old, new) ==
    IF old = <<>> THEN r
    ELSE drop_announcable(drop_one(r, p, Head(old), new), p, Tail(old), new)

\* notify_announcable_props, second loop: the announcements that became possible.
\* One pass of the second loop of notify_announcable_props
add_one(r, p, a, pl) ==
    IF \E i \in DOMAIN pl.announcements :
          pl.announcements[i].cards[1].suit = a.cards[1].suit
    THEN [r EXCEPT !.acc = SelectSeq(@, LAMBDA x : x.cards[1].suit # a.cards[1].suit)]
    ELSE IF ~has_announcable(pl.announcable, a)
    THEN [s |-> notify_priv(r.s, p, "CanAnnounce", a), acc |-> Append(r.acc, a)]
    ELSE r

RECURSIVE add_announcable(_, _, _)
add_announcable(r, p, new) ==
    IF new = <<>> THEN r
    ELSE add_announcable(add_one(r, p, Head(new), r.s.players[p]), p, Tail(new))

\* notify_announcable_props, lines 724-740: the marriages as Twenty, then the
\* trump marriage as Forty
announcements_of(twenty, forty) ==
    [i \in 1..Len(twenty) |-> Announcement(twenty[i], Twenty)]
    \o (IF forty # <<>> THEN <<Announcement(forty[1], Forty)>> ELSE <<>>)

\* update_announcable_props: the local `announcable` becomes the player's
store_announcable(r, p) == [r.s EXCEPT !.players[p].announcable = r.acc]

\* notify_announcable_props, the two loops
notify_announcable_props(s, p, announcements) ==
    add_announcable(
        drop_announcable([s |-> s, acc |-> s.players[p].announcable], p,
                         s.players[p].announcable, announcements),
        p, announcements)

update_announcable_props(s, p) ==
    store_announcable(
        notify_announcable_props(s, p,
            announcements_of(can_announce_20(s, p), can_announce_40(s, p))),
        p)

make_active(s, p) == notify_pub([s EXCEPT !.active = p], "Active", p)

\* swap_to, lines 825-834: the other player becomes the active one
switch_active(s, p) ==
    IF s.active = NoPlayer \/ p = s.active THEN s
    ELSE make_active(notify_pub(s, "Inactive", s.active), p)

swap_to(s, p) ==
    switch_active(
        update_playable_cards(update_swap_trump(update_announcable_props(s, p), p), p), p)

\* draw_card: the callers test deck.is_empty() through its error
\* The notifications of a card that went to a player: DeckCardCount,
\* CardAvailabe, ReceiveCard
notify_card(s, p, card) ==
    notify_pub(notify_priv(notify_pub(s, "DeckCardCount", Len(s.deck)),
                           p, "CardAvailabe", card),
               "ReceiveCard", p)

draw_card(s, p) ==
    [s |-> notify_card([s EXCEPT !.deck = SubSeq(@, 1, Len(@) - 1)], p, s.deck[Len(s.deck)]),
     card |-> s.deck[Len(s.deck)]]

take_trump(s, p) ==
    [s |-> notify_card(
             notify_pub([s EXCEPT !.taken_trump = <<[player |-> p, card |-> s.trump[1]]>>,
                                  !.trump = <<>>],
                        "TrumpChange", <<>>),
             p, s.trump[1]),
     card |-> s.trump[1]]

\* The notifications that end draw_card_after_trick
allow_after_draw(s, p) ==
    notify_priv(
        notify_priv(
            notify_priv_if(s, Len(s.players[p].announcable) > 0, p, "AllowAnnounce", 0),
            p, "AllowCloseTalon", 0),
        p, "AllowPlayCard", 0)

\* draw_card_after_trick: neither the active player nor the stack is checked
\* (line 300 tests the stack and does nothing).  Result: [s, res].
\* draw_card_after_trick, line 321: the drawn card goes to the hand
push_card(d, p) == [d.s EXCEPT !.players[p].cards = Append(@, d.card)]

\* draw_card_after_trick, lines 323-337: the other player draws too, or gets
\* the turn
\* draw_card_after_trick, lines 310-312: closed_talon.is_some()
talon_never_closed(s) == FALSE

talon_closed(s) == s.closed_talon # NoPlayer

RECURSIVE draw_card_after_trick(_, _)
draw_next(s, new) ==
    IF Len(s.players[new].cards) < HandSize /\ s.trump # <<>>
    THEN draw_card_after_trick(s, new)
    ELSE [s |-> allow_after_draw(swap_to(s, new), new), res |-> "Ok"]

draw_card_after_trick(s, p) ==
    IF Len(s.players[p].cards) = HandSize
    THEN [s |-> s, res |-> "CantTakeCardHaveAlreadyFive"]
    ELSE IF s.trump = <<>> THEN [s |-> s, res |-> "CantTakeCardDeckEmpty"]
    ELSE IF talon_closed(s) THEN [s |-> s, res |-> "TalonAlreadyClosed"]
    ELSE draw_next(
           push_card(IF s.deck # <<>> THEN draw_card(s, p) ELSE take_trump(s, p), p),
           Other(p))

\* Sum of the card values of a player's tricks
RECURSIVE trick_points(_)
trick_points(tricks) ==
    IF tricks = <<>> THEN 0
    ELSE Head(tricks)[1].value + Head(tricks)[2].value + trick_points(Tail(tricks))

RECURSIVE announcement_points(_)
announcement_points(anns) ==
    IF anns = <<>> THEN 0 ELSE Head(anns).announce_type + announcement_points(Tail(anns))

\* update_points, one player: the announcements count only with a trick taken
round_points(pl) ==
    (IF pl.tricks # <<>> THEN announcement_points(pl.announcements) ELSE 0)
    + trick_points(pl.tricks)

\* update_points: max_by_key keeps the last maximum, min_by_key the first minimum
compare_points(s, p1, p2) ==
    [s |-> notify_pub(
             notify_pub(s, "Score", [user_id |-> IF p2 >= p1 THEN 2 ELSE 1,
                                     points |-> IF p2 >= p1 THEN p2 ELSE p1]),
             "Score", [user_id |-> IF p1 <= p2 THEN 1 ELSE 2,
                       points |-> IF p1 <= p2 THEN p1 ELSE p2]),
     winner |-> IF p2 >= p1 THEN 2 ELSE 1,
     winner_points |-> IF p2 >= p1 THEN p2 ELSE p1,
     loser |-> IF p1 <= p2 THEN 1 ELSE 2,
     loser_points |-> IF p1 <= p2 THEN p1 ELSE p2]

update_points(s) == compare_points(s, round_points(s.players[1]), round_points(s.players[2]))

\* bummerl_points without the branch for a loser at 33 or more
bummerl_points_flat(loser_points) == IF loser_points = 0 THEN 3 ELSE 1

\* The bummerl points of a round from the loser's points
bummerl_points(loser_points) ==
    IF loser_points = 0 THEN 3 ELSE IF loser_points >= HalfPoints THEN 2 ELSE 1

\* update_finish_round from `let points` on: score, Result, reset, FinalResult
\* update_finish_round, lines 941-964: FinalResult once a player is at 7
final_result(s, winner) ==
    IF \A p \in PlayerIds : s.players[p].points < MatchPoints THEN s
    ELSE notify_pub(s, "FinalResult",
                    [winner |-> winner, ranked |-> [p \in PlayerIds |-> s.players[p].points]])

\* update_finish_round, lines 924-939: Result, then both players are reset
result_and_reset(s, winner, loser, points) ==
    final_result(
        [notify_pub(s, "Result",
                    [winner |-> winner, points |-> points,
                     ranked |-> [p \in PlayerIds |-> s.players[p].points]])
           EXCEPT !.players[winner] = reset(@), !.players[loser] = reset(@)],
        winner)

\* update_finish_round, line 922: the points go to the winner
add_points(s, winner, loser, points) ==
    result_and_reset([s EXCEPT !.players[winner].points = @ + points], winner, loser, points)

finish_round(s, winner, loser, loser_points) ==
    add_points(s, winner, loser, bummerl_points(loser_points))

\* A swap that looks at the last trick only, whoever closed the talon
swapped_by_last_trick(s, c, last_trick) == last_trick # c.winner

\* update_finish_round, lines 899-907: on exhaustion the closer who leads, or a
\* leader who did not take the last trick, changes places with the loser
swapped(s, c, last_trick) ==
    IF s.closed_talon # NoPlayer THEN s.closed_talon = c.winner
    ELSE last_trick # c.winner

\* update_finish_round, from the result of update_points on
decide_round(s, c, last_trick) ==
    IF c.winner_points >= WinPoints
    THEN finish_round(c.s, c.winner, c.loser, c.loser_points)
    ELSE IF ~(\E p \in PlayerIds : s.players[p].cards = <<>>) THEN c.s
    ELSE IF swapped(s, c, last_trick) THEN finish_round(c.s, c.loser, c.winner, 0)
    ELSE finish_round(c.s, c.winner, c.loser, 0)

\* update_finish_round: always Ok
update_finish_round(s, last_trick) == decide_round(s, update_points(s), last_trick)

\* take_trick that gives the pair to both players
take_trick_both(s, won) ==
    [notify_pub(s, "Trick", [user_id |-> won, cards |-> s.stack])
       EXCEPT !.players[won].tricks = Append(@, <<s.stack[2], s.stack[1]>>),
              !.players[Other(won)].tricks = Append(@, <<s.stack[2], s.stack[1]>>),
              !.stack = <<>>]

\* handle_trick, lines 1027-1035: the Trick event, then the winner's tricks get
\* [stack.pop(), stack.pop()]
take_trick(s, won) ==
    [notify_pub(s, "Trick", [user_id |-> won, cards |-> s.stack])
       EXCEPT !.players[won].tricks = Append(@, <<s.stack[2], s.stack[1]>>),
              !.stack = <<>>]

\* handle_trick.  Result: [s, res]; the error of draw_card_after_trick is passed on.
\* handle_trick, lines 1046-1049: AllowAnnounce and AllowPlayCard to the winner
allow_after_trick(s, won) ==
    notify_priv(
        notify_priv_if(s, Len(s.players[won].announcable) > 0, won, "AllowAnnounce", 0),
        won, "AllowPlayCard", 0)

\* handle_trick, lines 1042-1050: the winner draws, or gets the turn
after_trick(s, won) ==
    IF s.deck # <<>> /\ s.closed_talon = NoPlayer
    THEN draw_card_after_trick(s, won)
    ELSE [s |-> allow_after_trick(swap_to(s, won), won), res |-> "Ok"]

\* handle_trick, from the winner on
resolve_trick(s, won) == after_trick(update_finish_round(take_trick(s, won), won), won)

handle_trick(s) ==
    resolve_trick(s, get_winner(s, get_non_active_player(s), s.stack[1], s.active, s.stack[2]))

\* play_card once the call is accepted: the card goes from the hand and the
\* playable cards onto the stack; the second card of a trick resolves it.
\* play_card, lines 534-537: AllowPlayCard to the player who is active now
allow_play_card(s) == notify_priv(s, s.active, "AllowPlayCard", 0)

\* play_card, lines 530-538: the second card resolves the trick, the first one
\* passes the turn
after_card(s) ==
    IF Len(s.stack) = 2 THEN handle_trick(s)
    ELSE [s |-> allow_play_card(swap_to(s, get_non_active_player(s))), res |-> "Ok"]

put_card(s, p, card) ==
    after_card(
        notify_pub(
            notify_priv(
                notify_priv(
                    [s EXCEPT
                       !.players[p].cards = SelectSeq(@, LAMBDA x : x # card),
                       !.players[p].playable_cards = SelectSeq(@, LAMBDA x : x # card),
                       !.stack = Append(@, card)],
                    p, "CardUnavailabe", card),
                p, "CardNotPlayable", card),
            "PlayCard", [user_id |-> p, card |-> card]))

\* play_card without the test of the active player
play_card_any_player(s, p, card) ==
    IF ~Contains(s.players[p].playable_cards, card) THEN [s |-> s, res |-> "CantPlayCard"]
    ELSE put_card(s, p, card)

\* play_card.  Result: [s, res].
play_card(s, p, card) ==
    IF s.active = NoPlayer \/ ~is_active(s, p) THEN [s |-> s, res |-> "PlayerNotActive"]
    ELSE IF ~Contains(s.players[p].playable_cards, card)
    THEN [s |-> s, res |-> "CantPlayCard"]
    ELSE put_card(s, p, card)


\* swap_trump: the trump is replaced; the hand of the player is not touched.
swap_trump(s, p, card) ==
    LET swap == can_swap_trump(s, p)
        old == s.trump[1]
        s1 == [s EXCEPT !.trump = <<card>>]
        s2 == notify_priv(s1, p, "CardAvailabe", old)
        s3 == notify_priv(s2, p, "CardUnavailabe", card)
    IN IF swap = <<>> THEN [s |-> s, res |-> "CantSwapTrump"]
       ELSE IF swap[1] # card THEN [s |-> s, res |-> "CantSwapTrump"]
       ELSE [s |-> notify_pub(s3, "TrumpChange", <<card>>), res |-> "Ok"]

close_talon(s, p) ==
    IF s.active = NoPlayer \/ ~is_active(s, p) \/ s.deck = <<>> \/ s.stack # <<>>
    THEN [s |-> s, res |-> "PlayerNotActive"]
    ELSE IF s.closed_talon # NoPlayer THEN [s |-> s, res |-> "TalonAlreadyClosed"]
    ELSE [s |-> notify_pub([s EXCEPT !.closed_talon = p], "CloseTalon", p), res |-> "Ok"]

\* take_cards_til: the drained cards are returned to the caller (the performer
\* drops them).  deck.len() - 1 on an empty deck overflows: a panic with overflow
\* checks, otherwise it wraps and the next test answers CantTakeCardDeckEmpty.
take_cards_til(s, p, idx, overflow_checks) ==
    IF s.deck = <<>>
    THEN IF overflow_checks THEN [s |-> [s EXCEPT !.panicked = TRUE], res |-> "panic"]
         ELSE [s |-> s, res |-> "CantTakeCardDeckEmpty"]
    ELSE IF idx >= Len(s.deck) - 1 THEN [s |-> s, res |-> "CantTakeAllDeckCards"]
    ELSE LET cards == SubSeq(s.deck, 1, idx)
             s1 == [s EXCEPT !.deck = SubSeq(@, idx + 1, Len(@))]
             s2 == [s1 EXCEPT !.ev = @ \o [i \in 1..(2 * idx) |->
                        IF i % 2 = 1
                        THEN [to |-> p, name |-> "CardAvailabe", arg |-> cards[(i + 1) \div 2]]
                        ELSE [to |-> 0, name |-> "ReceiveCard", arg |-> p]]]
         IN [s |-> notify_pub(s2, "DeckCardCount", Len(s2.deck)), res |-> "Ok"]

\* cutt_deck: active is unwrapped without a test
cutt_deck(s, p, cards_to_take) ==
    IF s.active = NoPlayer THEN [s |-> [s EXCEPT !.panicked = TRUE], res |-> "panic"]
    ELSE IF p # s.active THEN [s |-> s, res |-> "CantTakeCardRoundNotFinished"]
    ELSE LET k == IF cards_to_take > Len(s.deck) THEN Len(s.deck) ELSE cards_to_take
         IN [s |-> [s EXCEPT !.deck = SubSeq(@, k + 1, Len(@)) \o SubSeq(@, 1, k)],
             res |-> "Ok"]

announce_40(s, p) ==
    LET cards_to_announce == can_announce_40(s, p)
    IN IF cards_to_announce = <<>> THEN [s |-> s, res |-> "CantPlay40"]
       ELSE [s |-> notify_pub(s, "Announce",
                      [user_id |-> p, announcement |-> Announcement(cards_to_announce[1], Forty)]),
             res |-> "Ok"]

\* [Card; 2]::sort with Card's Ord, which compares the value only (stable)
sort_pair(pr) == IF pr[2].value < pr[1].value THEN <<pr[2], pr[1]>> ELSE pr

\* models::contains_card_comb
contains_card_comb(data, check) ==
    \E i \in DOMAIN data : sort_pair(data[i]) = sort_pair(check)

announce_20(s, p, cards) ==
    LET announce == can_announce_20(s, p)
    IN IF announce = <<>> \/ ~contains_card_comb(announce, cards)
       THEN [s |-> s, res |-> "CantPlay20"]
       ELSE [s |-> notify_pub(s, "Announce",
                      [user_id |-> p, announcement |-> Announcement(cards, Twenty)]),
             res |-> "Ok"]

set_active_player(s, p) ==
    IF s.active # NoPlayer THEN [s |-> s, res |-> "CantSetActivePlayer"]
    ELSE [s |-> make_active(s, p), res |-> "Ok"]

\* do_cards, n times: deck.pop().unwrap() panics on an empty deck
RECURSIVE do_cards(_, _, _)
do_cards(s, p, n) ==
    IF n = 0 \/ s.panicked THEN s
    ELSE IF s.deck = <<>> THEN [s EXCEPT !.panicked = TRUE]
    ELSE LET card == s.deck[Len(s.deck)]
             s1 == [s EXCEPT !.deck = SubSeq(@, 1, Len(@) - 1)]
             s2 == notify_pub(notify_priv(s1, p, "CardAvailabe", card), "ReceiveCard", p)
         IN do_cards([s2 EXCEPT !.players[p].cards = Append(@, card)], p, n - 1)

\* reveal_trump that reads the top card and leaves it on the deck
reveal_trump_keep(s) ==
    IF s.panicked THEN s
    ELSE IF s.deck = <<>> THEN [s EXCEPT !.panicked = TRUE]
    ELSE notify_pub([s EXCEPT !.trump = <<s.deck[Len(s.deck)]>>],
                    "TrumpChange", <<s.deck[Len(s.deck)]>>)

\* distribute_cards, the trump: deck.pop().unwrap(), TrumpChange, trump.insert
reveal_trump(s) ==
    IF s.panicked THEN s
    ELSE IF s.deck = <<>> THEN [s EXCEPT !.panicked = TRUE]
    ELSE notify_pub([s EXCEPT !.trump = <<s.deck[Len(s.deck)]>>,
                              !.deck = SubSeq(@, 1, Len(@) - 1)],
                    "TrumpChange", <<s.deck[Len(s.deck)]>>)

\* distribute_cards, lines 456-466: the derived fields of one player
update_derived(s, p) ==
    update_announcable_props(update_swap_trump(update_playable_cards(s, p), p), p)

distribute_cards(s) ==
    LET first == s.active
        second == Other(s.active)
        s1 == do_cards(do_cards(s, first, 3), second, 3)
        s2 == reveal_trump(s1)
        s3 == do_cards(do_cards(s2, first, 2), second, 2)
        s4 == update_derived(update_derived(s3, first), second)
        s5 == notify_priv(notify_priv(s4, first, "AllowPlayCard", 0),
                          first, "AllowCloseTalon", 0)
    IN IF s.active = NoPlayer THEN [s |-> s, res |-> "NoPlayerActive"]
       ELSE IF s3.panicked THEN [s |-> s3, res |-> "panic"]
       ELSE [s |-> s5, res |-> "Ok"]

\* SchnapsenDuo results that are unwrapped: an Err panics under the lock
unwrap(r) ==
    IF r.res = "Ok" \/ r.res = "panic" THEN r
    ELSE [s |-> [r.s EXCEPT !.panicked = TRUE], res |-> "panic"]

\* next_round, lines 1067-1074: the fields of the round are cleared and the
\* players reset
next_round_clear(s) ==
    [s EXCEPT !.active = NoPlayer, !.trump = <<>>, !.stack = <<>>,
              !.closed_talon = NoPlayer, !.taken_trump = <<>>,
              !.players = [p \in PlayerIds |-> reset(s.players[p])]]

\* recreate_deck: a freshly shuffled deck (the k-th), the players reset
recreate_deck(s, k) ==
    [s EXCEPT !.deck = ShuffledDeck(k),
              !.players = [p \in PlayerIds |-> reset(s.players[p])]]

\* next_round, line 1079: make_active(winner) after the distribution
next_round_activate(r, winner) ==
    IF r.res = "panic" THEN r ELSE [s |-> make_active(r.s, winner), res |-> "Ok"]

\* next_round: distribute_cards().unwrap() runs after active was cleared
next_round(s, winner, k) ==
    next_round_activate(
        unwrap(distribute_cards(recreate_deck(next_round_clear(s), k))), winner)

\* ---------------------------------------------------- rule engine: actions

MarriagePairs == {<<[value |-> Queen, suit |-> su], [value |-> King, suit |-> su]>> : su \in Suits}
                 \cup {<<[value |-> King, suit |-> su], [value |-> Queen, suit |-> su]>> : su \in Suits}

\* The fields of the instance, without the events of the running command.
Fields(s) == <<s.players, s.deck, s.active, s.trump, s.taken_trump, s.closed_talon, s.stack>>

\* A call that is refused before it touches the instance changes nothing and is
\* a stuttering step; lastCmd and lastRes describe the last call that succeeded,
\* panicked, or returned its error after it had changed the instance.
Effective(r) == r.res = "Ok" \/ r.res = "panic" \/ Fields(r.s) # Fields(RE)

\* setup_match_result_handler: notify spawns a task that calls on_match_result
\* for each Result event (in bummerl mode it calls next_round(winner) five
\* seconds later)
round_tasks(pending, ev) ==
    pending \cup {ev[i].arg.winner : i \in {j \in DOMAIN ev : ev[j].name = "Result"}}

\* setup_match_final_result_handler, installed in bummerl mode only: notify
\* spawns a task of the handler for each FinalResult event
final_tasks(pending, ev, mode) ==
    IF mode
    THEN pending \cup {ev[i].arg : i \in {j \in DOMAIN ev : ev[j].name = "FinalResult"}}
    ELSE pending

\* The match is followed until it exits; translator.on_event, lines 541-547,
\* drops the actions of the sockets from then on.
Running == exited <= 0

\* The state after a command: its result r = [s, res] and its name.
Commit(r, name, p) ==
    /\ Running
    /\ Effective(r)
    /\ players' = r.s.players
    /\ deck' = r.s.deck
    /\ active' = r.s.active
    /\ trump' = r.s.trump
    /\ taken_trump' = r.s.taken_trump
    /\ closed_talon' = r.s.closed_talon
    /\ stack' = r.s.stack
    /\ panicked' = r.s.panicked
    /\ events' = r.s.ev
    /\ lastCmd' = [name |-> name, player |-> p]
    /\ lastRes' = r.res
    /\ pendingRounds' = round_tasks(IF name = "next_round" THEN pendingRounds \ {p}
                                    ELSE pendingRounds, r.s.ev)
    /\ pendingFinal' = final_tasks(pendingFinal, r.s.ev, bummerl)
    /\ returned' = returned

\* A successful client command outside the course of play counts against
\* MaxExtraCmds.
Extra(r) ==
    /\ r.res = "Ok" => extraCmds < MaxExtraCmds
    /\ extraCmds' = IF r.res = "Ok" THEN extraCmds + 1 ELSE extraCmds

SetActivePlayer(p) ==
    /\ ~panicked
    /\ Commit(set_active_player(RE, p), "set_active_player", p)
    /\ UNCHANGED <<distributed, altPlays, extraCmds, ejVars, moVars>>

\* start_match deals once per match.
DistributeCards ==
    /\ ~panicked
    /\ ~distributed
    /\ LET r == distribute_cards(RE)
       IN /\ Commit(r, "distribute_cards", active)
          /\ distributed' = (r.res # "NoPlayerActive")
    /\ UNCHANGED <<altPlays, extraCmds, ejVars, moVars>>

\* The cards a play_card may name in this state: any card for a call that is
\* refused, the first playable cards for one that is accepted.
PlayAllowed(p, card) ==
    LET playable == players[p].playable_cards
    IN IF active # p \/ ~Contains(playable, card) THEN TRUE
       ELSE IF card = playable[1] THEN TRUE
       ELSE altPlays < MaxAltPlays
            /\ \E i \in 1..MaxPlayChoice : i <= Len(playable) /\ playable[i] = card

PlayCard(p, card) ==
    /\ ~panicked
    /\ PlayAllowed(p, card)
    /\ LET r == play_card(RE, p, card)
       IN /\ Commit(r, "play_card", p)
          /\ altPlays' = IF active = p /\ Contains(players[p].playable_cards, card)
                            /\ card # players[p].playable_cards[1]
                         THEN altPlays + 1 ELSE altPlays
    /\ UNCHANGED <<distributed, extraCmds, ejVars, moVars>>

SwapTrump(p, card) ==
    /\ ~panicked
    /\ Commit(swap_trump(RE, p, card), "swap_trump", p)
    /\ UNCHANGED <<distributed, altPlays, extraCmds, ejVars, moVars>>

CloseTalon(p) ==
    /\ ~panicked
    /\ Commit(close_talon(RE, p), "close_talon", p)
    /\ UNCHANGED <<distributed, altPlays, extraCmds, ejVars, moVars>>

Announce20(p, cards) ==
    /\ ~panicked
    /\ Commit(announce_20(RE, p, cards), "announce_20", p)
    /\ UNCHANGED <<distributed, altPlays, extraCmds, ejVars, moVars>>

Announce40(p) ==
    /\ ~panicked
    /\ Commit(announce_40(RE, p), "announce_40", p)
    /\ UNCHANGED <<distributed, altPlays, extraCmds, ejVars, moVars>>

DrawCard(p) ==
    /\ ~panicked
    /\ LET r == draw_card_after_trick(RE, p)
       IN Commit(r, "draw_card_after_trick", p) /\ Extra(r)
    /\ UNCHANGED <<distributed, altPlays, ejVars, moVars>>

CuttDeck(p, k) ==
    /\ ~panicked
    /\ LET r == cutt_deck(RE, p, k)
       IN Commit(r, "cutt_deck", p) /\ Extra(r)
    /\ UNCHANGED <<distributed, altPlays, ejVars, moVars>>

TakeCards(p, idx, overflow_checks) ==
    /\ ~panicked
    /\ LET r == take_cards_til(RE, p, idx, overflow_checks)
       IN Commit(r, "take_cards_til", p) /\ Extra(r)
    /\ UNCHANGED <<distributed, altPlays, ejVars, moVars>>

\* on_match_result, lines 229-233: the task of a Result takes the instance
\* lock and calls next_round(winner); the new deck is the k-th shuffle
NextRound(winner, k) ==
    /\ ~panicked
    /\ bummerl
    /\ winner \in pendingRounds
    /\ Commit(next_round(RE, winner, k), "next_round", winner)
    /\ UNCHANGED <<distributed, altPlays, extraCmds, ejVars, moVars>>

\* ------------------------------------------------------------ initial states

ExitCalls == 1..MaxExitCalls
CallbackIds == 1..MaxCallbacks

\* SchnapsenDuo::new; points is what each player holds from earlier deals
InitEngine(points) ==
    /\ players = [p \in PlayerIds |-> [NewPlayer EXCEPT !.points = points]]
    /\ deck \in {ShuffledDeck(k) : k \in 0..(NumDecks - 1)}
    /\ active = NoPlayer
    /\ trump = <<>>
    /\ taken_trump = <<>>
    /\ closed_talon = NoPlayer
    /\ stack = <<>>
    /\ panicked = FALSE
    /\ events = <<>>
    /\ lastCmd = [name |-> "new", player |-> NoPlayer]
    /\ lastRes = "Ok"
    /\ distributed = FALSE
    /\ altPlays = 0
    /\ extraCmds = 0
    /\ pendingRounds = {}
    /\ pendingFinal = {}
    /\ returned = <<>>

InitRE == InitEngine(0)

InitEJ ==
    /\ journal = <<>>
    /\ replay = <<>>
    /\ query = [timestamp |-> 0, user_id |-> 0, asked |-> FALSE]

InitMO ==
    /\ exited = 0
    /\ callbacks = <<>>
    /\ cbLock = 0
    /\ pc = [t \in ExitCalls |-> "idle"]
    /\ sawExited = [t \in ExitCalls |-> 0]
    /\ invokedBy = [t \in ExitCalls |-> <<>>]
    /\ late = [t \in ExitCalls |-> FALSE]
    /\ invoked = [c \in CallbackIds |-> 0]
    /\ registered = {}
    /\ regBeforeExit = {}

Sockets == 1..MaxSockets

\* WriteMatchManager::create, lines 98-124: no socket, not started, and
\* await_initial_connection has stored a Sender and spawned await_timeout for
\* each player.
InitMM ==
    /\ write_connected = [p \in PlayerIds |-> <<>>]
    /\ awaiting_reconnection = [p \in PlayerIds |-> p]
    /\ started = FALSE
    /\ timers = [p \in PlayerIds |-> [kind |-> "initial", player |-> p, st |-> "waiting",
                                      signalled |-> FALSE, reauthed |-> FALSE,
                                      live |-> FALSE]]
    /\ authPc = [k \in Sockets |-> "new"]
    /\ sockOf = [k \in Sockets |-> NoPlayer]
    /\ alive = {}
    /\ regs = [p \in PlayerIds |-> 0]
    /\ timeouts = {}
    /\ exitReason = <<>>
    /\ authOrder = <<>>
    /\ matchPlays = 0

Init ==
    /\ InitRE /\ InitEJ /\ InitMO /\ InitMM
    /\ min_players = Cardinality(PlayerIds) /\ bummerl = TRUE

Next ==
    \/ \E p \in PlayerIds : SetActivePlayer(p)
    \/ DistributeCards
    \/ \E p \in PlayerIds, card \in Cards : PlayCard(p, card)
    \/ \E p \in PlayerIds, card \in Cards : SwapTrump(p, card)
    \/ \E p \in PlayerIds : CloseTalon(p)
    \/ \E p \in PlayerIds, cards \in MarriagePairs : Announce20(p, cards)
    \/ \E p \in PlayerIds : Announce40(p)
    \/ \E p \in PlayerIds : DrawCard(p)
    \/ \E p \in PlayerIds, k \in 1..MaxCutArg : CuttDeck(p, k)
    \/ \E p \in PlayerIds, idx \in 0..MaxCutArg, oc \in BOOLEAN : TakeCards(p, idx, oc)
    \/ \E p \in PlayerIds, k \in 0..(NumDecks - 1) : NextRound(p, k)

Spec == Init /\ [][Next]_vars

\* A deal of a match in which both players already hold MaxCarried points:
\* the points are the one field of a player that reset, recreate_deck and
\* next_round keep from deal to deal.
InitCarry ==
    /\ InitEngine(MaxCarried)
    /\ InitEJ /\ InitMO /\ InitMM
    /\ min_players = Cardinality(PlayerIds) /\ bummerl = TRUE

SpecCarry == InitCarry /\ [][Next]_vars

\* ------------------------------------------------------- trick resolution

\* get_winner as handle_trick calls it: the stack holds the lead and the
\* response, the active player is the one who played the response
trick_winner(s) ==
    get_winner(s, get_non_active_player(s), s.stack[1], s.active, s.stack[2])

InitTrick ==
    /\ InitEngine(0) /\ InitEJ /\ InitMO /\ InitMM
    /\ min_players = Cardinality(PlayerIds) /\ bummerl = TRUE

\* The instance at the call of handle_trick: any two distinct cards on the
\* stack, either player as the responder, and a third card as the trump on
\* the table or as the trump that was taken
SetTrick(lead, response, tr, responder, taken) ==
    /\ lead # response /\ tr # lead /\ tr # response
    /\ stack' = <<lead, response>>
    /\ active' = responder
    /\ trump' = IF taken THEN <<>> ELSE <<tr>>
    /\ taken_trump' = IF taken THEN <<[player |-> responder, card |-> tr]>> ELSE <<>>
    /\ UNCHANGED <<players, deck, closed_talon, reCtl, ejVars, moVars>>

ResolveTrick ==
    /\ Len(stack) = 2 /\ returned = <<>>
    /\ returned' = <<trick_winner(RE)>>
    /\ UNCHANGED <<reVars, panicked, events, lastCmd, lastRes, distributed, altPlays,
                   extraCmds, pendingRounds, pendingFinal, ejVars, moVars>>

SetAnyTrick ==
    /\ stack = <<>> /\ returned = <<>>
    /\ \E lead \in Cards, response \in Cards, tr \in Cards,
          responder \in PlayerIds, taken \in BOOLEAN :
            SetTrick(lead, response, tr, responder, taken)

NextTrick == SetAnyTrick \/ ResolveTrick

SpecTrick == InitTrick /\ [][NextTrick]_vars

\* ------------------------------------------------------------ event journal

Viewers == {NoPlayer} \cup PlayerIds

\* EventLogger::log: the entry goes behind the last entry whose timestamp is not
\* later than its own; when every entry is later (or there is none) it is pushed
\* at the end.
log(evs, entry) ==
    LET behind == {i \in DOMAIN evs : evs[i].timestamp <= entry.timestamp}
        at == CHOOSE i \in behind : \A j \in behind : j <= i
    IN IF behind = {} THEN Append(evs, entry)
       ELSE SubSeq(evs, 1, at) \o <<entry>> \o SubSeq(evs, at + 1, Len(evs))

\* A filter that keeps every entry
user_events_all(evs, user_id) == evs

\* events_since, the filter: the public entries and the viewer's own
user_events(evs, user_id) ==
    SelectSeq(evs, LAMBDA e : e.user = NoPlayer \/ e.user = user_id)

\* events_since, find_first: position(timestamp >= t).unwrap_or(0), as a 1-based index
find_first(ue, timestamp) ==
    LET from == {i \in DOMAIN ue : ue[i].timestamp >= timestamp}
    IN IF from = {} THEN 1 ELSE CHOOSE i \in from : \A j \in from : i <= j

Sorted(ue) == \A i, j \in DOMAIN ue : i < j => ue[i].timestamp <= ue[j].timestamp

\* binary_search_by_key(..).unwrap_or(find_first()): the indices it can give.  Of
\* several entries with the timestamp the search may give any one; on entries
\* that are not sorted it may also miss them all.
search_indices(ue, timestamp) ==
    LET hits == {i \in DOMAIN ue : ue[i].timestamp = timestamp}
    IN IF hits = {} THEN {find_first(ue, timestamp)}
       ELSE IF Sorted(ue) THEN hits
       ELSE hits \cup {find_first(ue, timestamp)}

\* events_since: user_events[idx..]
events_since(evs, timestamp, user_id, idx) ==
    SubSeq(user_events(evs, user_id), idx, Len(user_events(evs, user_id)))

\* EventLogger::all
all(evs) == evs

Log(ts, user) ==
    /\ Len(journal) < MaxJournal
    /\ journal' = log(journal, [user |-> user, timestamp |-> ts, id |-> Len(journal) + 1])
    /\ UNCHANGED <<replay, query, reVars, reCtl, moVars>>

EventsSince(timestamp, user_id) ==
    /\ \E idx \in search_indices(user_events(journal, user_id), timestamp) :
          replay' = events_since(journal, timestamp, user_id, idx)
    /\ query' = [timestamp |-> timestamp, user_id |-> user_id, asked |-> TRUE]
    /\ UNCHANGED <<journal, reVars, reCtl, moVars>>

NextJournal ==
    \/ \E ts \in 1..MaxTs, user \in Viewers : Log(ts, user)
    \/ \E timestamp \in 0..(MaxTs + 1), user_id \in Viewers : EventsSince(timestamp, user_id)

SpecJournal == Init /\ [][NextJournal]_vars

\* ------------------------------------------------------ exit of the manager

\* on_exit: lock, push, unlock
OnExit(c) ==
    /\ c \notin registered
    /\ cbLock = 0
    /\ callbacks' = Append(callbacks, c)
    /\ registered' = registered \cup {c}
    /\ regBeforeExit' = IF \A t \in ExitCalls : pc[t] = "idle"
                        THEN regBeforeExit \cup {c} ELSE regBeforeExit
    /\ UNCHANGED <<exited, cbLock, pc, sawExited, invokedBy, late, invoked,
                   reVars, reCtl, ejVars, mmVars>>

\* ExitLoad that goes on whatever it loaded
ExitLoadNoReturn(t) ==
    /\ pc[t] = "idle"
    /\ sawExited' = [sawExited EXCEPT ![t] = exited]
    /\ late' = [late EXCEPT ![t] = \E u \in ExitCalls : pc[u] \in {"done", "returned"}]
    /\ pc' = [pc EXCEPT ![t] = "add"]
    /\ UNCHANGED <<exited, callbacks, cbLock, invokedBy, invoked, registered,
                   regBeforeExit, reVars, reCtl, ejVars, mmVars>>

\* exit, lines 162-164: load exited and return when it is positive
ExitLoad(t) ==
    /\ pc[t] = "idle"
    /\ sawExited' = [sawExited EXCEPT ![t] = exited]
    /\ late' = [late EXCEPT ![t] = \E u \in ExitCalls : pc[u] \in {"done", "returned"}]
    /\ pc' = [pc EXCEPT ![t] = IF exited > 0 THEN "returned" ELSE "add"]
    /\ UNCHANGED <<exited, callbacks, cbLock, invokedBy, invoked, registered,
                   regBeforeExit, reVars, reCtl, ejVars, mmVars>>

\* exit, lines 171-172: fetch_add(1) on an AtomicI8
ExitAdd(t) ==
    /\ pc[t] = "add"
    /\ exited' = IF exited = I8Max THEN 0 - I8Max - 1 ELSE exited + 1
    /\ pc' = [pc EXCEPT ![t] = "lock"]
    /\ UNCHANGED <<callbacks, cbLock, sawExited, invokedBy, late, invoked, registered,
                   regBeforeExit, reVars, reCtl, ejVars, mmVars>>

\* exit, line 173: on_exit_callbacks.lock()
ExitLock(t) ==
    /\ pc[t] = "lock"
    /\ cbLock = 0
    /\ cbLock' = t
    /\ pc' = [pc EXCEPT ![t] = "drain"]
    /\ UNCHANGED <<exited, callbacks, sawExited, invokedBy, late, invoked, registered,
                   regBeforeExit, reVars, reCtl, ejVars, mmVars>>

\* exit, lines 173-175: drain(..) hands out the next callback and it is called
ExitCall(t) ==
    /\ pc[t] = "drain"
    /\ callbacks # <<>>
    /\ callbacks' = Tail(callbacks)
    /\ invoked' = [invoked EXCEPT ![Head(callbacks)] = @ + 1]
    /\ invokedBy' = [invokedBy EXCEPT ![t] = Append(@, Head(callbacks))]
    /\ UNCHANGED <<exited, cbLock, pc, sawExited, late, registered, regBeforeExit,
                   reVars, reCtl, ejVars, mmVars>>

\* exit, line 175: the loop ends, the guard is dropped
ExitUnlock(t) ==
    /\ pc[t] = "drain"
    /\ callbacks = <<>>
    /\ cbLock' = 0
    /\ pc' = [pc EXCEPT ![t] = "done"]
    /\ UNCHANGED <<exited, callbacks, sawExited, invokedBy, late, invoked, registered,
                   regBeforeExit, reVars, reCtl, ejVars, mmVars>>

NextExit ==
    \/ \E c \in CallbackIds : OnExit(c)
    \/ \E t \in ExitCalls : ExitLoad(t)
    \/ \E t \in ExitCalls : ExitAdd(t)
    \/ \E t \in ExitCalls : ExitLock(t)
    \/ \E t \in ExitCalls : ExitCall(t)
    \/ \E t \in ExitCalls : ExitUnlock(t)

SpecExit == Init /\ [][NextExit]_vars

\* ------------------------------------------------------- match orchestrator

\* start_match: set_active_player(begin).unwrap(), distribute_cards().unwrap()
start_match_deal(a) == IF a.res = "panic" THEN a ELSE unwrap(distribute_cards(a.s))

\* get_player of a token that is no player's is None: active_player.unwrap()
\* panics with the instance locked
start_match(s, begin_player_id) ==
    IF begin_player_id = NoPlayer
    THEN [s |-> [s EXCEPT !.panicked = TRUE], res |-> "panic"]
    ELSE start_match_deal(unwrap(set_active_player(s, begin_player_id)))

\* The sockets of a player in write_connected, and the keys of the map
SocketsOf(wc, p) == IF wc[p] = <<>> THEN {} ELSE wc[p][1]

ConnectedKeys(wc) == {p \in PlayerIds : wc[p] # <<>>}

AllSockets(wc) == UNION {SocketsOf(wc, p) : p \in PlayerIds}

\* await_timeout, lines 357-382: the players with a socket are winners with 0,
\* the players with a key and no socket are losers with 0
TimeoutResult(wc) ==
    [ok |-> TRUE, reason |-> "MatchResult",
     winners |-> [p \in {q \in ConnectedKeys(wc) : SocketsOf(wc, q) # {}} |-> 0],
     losers |-> [p \in {q \in ConnectedKeys(wc) : SocketsOf(wc, q) = {}} |-> 0]]

\* MatchAbruptClose with the reason AllPlayersDisconnected
AbruptClose ==
    [ok |-> FALSE, reason |-> "AllPlayersDisconnected",
     winners |-> [p \in {} |-> 0], losers |-> [p \in {} |-> 0]]

\* exit: nothing when exited is positive, otherwise exited is raised and the
\* callbacks get the reason (the interleavings of two calls are SpecExit's)
Exit(reason) ==
    IF exited > 0 THEN UNCHANGED <<exited, exitReason>>
    ELSE exited' = exited + 1 /\ exitReason' = <<reason>>

\* A receiver whose Sender sent true, or was dropped, is ready
signal(tm, t) ==
    [i \in DOMAIN tm |-> IF i = t THEN [tm[i] EXCEPT !.signalled = TRUE] ELSE tm[i]]

\* on_play_card, lines 333-340: PlayCard of the player sends true on the
\* channel of each of its armed play_card_or_timeout tasks
signal_moves(tm, ev) ==
    [i \in DOMAIN tm |->
        IF /\ tm[i].kind = "move" /\ tm[i].st = "waiting"
           /\ \E j \in DOMAIN ev : ev[j].name = "PlayCard" /\ ev[j].arg.user_id = tm[i].player
        THEN [tm[i] EXCEPT !.signalled = TRUE] ELSE tm[i]]

\* A task that was just spawned; live tells whether the match had started
NewTimer(kind, p, live) ==
    [kind |-> kind, player |-> p, st |-> "spawned", signalled |-> FALSE,
     reauthed |-> FALSE, live |-> live]

\* setup_wait_for_move, lines 410-412: each callback registered for a player
\* spawns play_card_or_timeout for each AllowPlayCard the player gets
spawn_moves(tm, rg) ==
    tm \o [i \in 1..rg[1] |-> NewTimer("move", 1, TRUE)]
       \o [i \in 1..rg[2] |-> NewTimer("move", 2, TRUE)]

allowed_plays(ev, rg) ==
    [p \in PlayerIds |->
        rg[p] * Cardinality({j \in DOMAIN ev : ev[j].name = "AllowPlayCard" /\ ev[j].to = p})]

\* The tasks after a command of the rule engine that emitted ev
after_events(tm, ev, rg) == spawn_moves(signal_moves(tm, ev), allowed_plays(ev, rg))

\* A command of the rule engine run by the orchestrator or by a performer
Engine(r, name, p) ==
    /\ Commit(r, name, p)
    /\ Len(after_events(timers, r.s.ev, regs)) <= MaxTimers
    /\ timers' = after_events(timers, r.s.ev, regs)

\* A reconnect task of the player that has not fired sees the player
\* authenticate again
mark_reauthed(tm, p) ==
    [i \in DOMAIN tm |->
        IF tm[i].kind = "reconnect" /\ tm[i].player = p /\ tm[i].st \in {"spawned", "waiting"}
        THEN [tm[i] EXCEPT !.reauthed = TRUE] ELSE tm[i]]

\* setup_private_access, lines 469-563: the socket joins the sockets of the
\* player of its token, the stored Sender of the player is removed and sends
\* true; the callbacks of the socket, setup_wait_for_move and the disconnect
\* handler are installed.  Sockets are numbered in the order of their auth.
private_access(k, p) ==
    /\ sockOf' = [sockOf EXCEPT ![k] = p]
    /\ write_connected' = [write_connected EXCEPT ![p] = <<SocketsOf(write_connected, p) \cup {k}>>]
    /\ authOrder' = IF Contains(authOrder, p) THEN authOrder ELSE Append(authOrder, p)
    /\ timers' = mark_reauthed(signal(timers, awaiting_reconnection[p]), p)
    /\ awaiting_reconnection' = [awaiting_reconnection EXCEPT ![p] = 0]
    /\ regs' = [regs EXCEPT ![p] = @ + 1]
    /\ alive' = alive \cup {k}
    /\ UNCHANGED <<started, min_players, bummerl, timeouts, exitReason, matchPlays,
                   exited, exitCtl, reVars, reCtl, ejVars>>

\* handle_auth, lines 625-627, of a socket that sends the token of player p
AuthAccess(k, p) ==
    /\ Running
    /\ authPc[k] = "new"
    /\ \A j \in Sockets : j < k => authPc[j] # "new"
    /\ authPc' = [authPc EXCEPT ![k] = "check"]
    /\ private_access(k, p)

\* handle_auth of a socket that sends its token a second time: the socket is
\* pushed to the sockets of its player again, the callbacks are installed again
\* (followed while the match has not started: later the check does nothing)
AuthAgain(k) ==
    /\ Running /\ ~started
    /\ authPc[k] = "done" /\ k \in alive
    /\ Cardinality({j \in Sockets : authPc[j] \in {"again", "redone"}}) < MaxReauth
    /\ authPc' = [authPc EXCEPT ![k] = "again"]
    /\ private_access(k, sockOf[k])

\* setup_private_access, lines 469-478: a token that is no player's returns at
\* once; handle_auth goes on to its check all the same (followed while the
\* match has not started)
AuthUnknown(k) ==
    /\ Running /\ ~started
    /\ authPc[k] = "new"
    /\ \A j \in Sockets : j < k => authPc[j] # "new"
    /\ Cardinality({j \in Sockets : authPc[j] # "new" /\ sockOf[j] = NoPlayer}) < MaxUnknown
    /\ authPc' = [authPc EXCEPT ![k] = "check"]
    /\ UNCHANGED <<write_connected, awaiting_reconnection, started, min_players, bummerl, timers,
                   sockOf, alive, regs, timeouts, exitReason, authOrder, matchPlays,
                   exited, exitCtl, reVars, reCtl, ejVars>>

\* A check that starts the match whenever every player has a key
should_start_again(wc, st) == Cardinality(ConnectedKeys(wc)) = Cardinality(PlayerIds)

\* handle_auth, lines 640-641: every player has a key in write_connected, and
\* started.swap(true) returned false
should_start(wc, st) == Cardinality(ConnectedKeys(wc)) = Cardinality(PlayerIds) /\ ~st

\* handle_auth, lines 640-644: the handler that finds every player in
\* write_connected and flips started starts the match with its own token
AuthCheck(k) ==
    /\ Running
    /\ authPc[k] \in {"check", "again"}
    /\ authPc' = [authPc EXCEPT ![k] = IF @ = "check" THEN "done" ELSE "redone"]
    /\ IF should_start(write_connected, started)
       THEN /\ started' = TRUE
            /\ Engine(start_match(RE, sockOf[k]), "start_match", sockOf[k])
       ELSE UNCHANGED <<started, timers, reVars, panicked, events, lastCmd, lastRes,
                        pendingRounds, pendingFinal, returned>>
    /\ UNCHANGED <<write_connected, awaiting_reconnection, min_players, bummerl, sockOf, alive, regs,
                   timeouts, exitReason, authOrder, matchPlays, exited, exitCtl,
                   distributed, altPlays, extraCmds, ejVars>>

\* translator.on_event, lines 539-560: a play_card of a socket goes to the
\* performer unless the match has exited
MatchPlay(k) ==
    /\ Running
    /\ k \in alive
    /\ ~panicked
    /\ matchPlays < MaxMatchPlays
    /\ players[sockOf[k]].playable_cards # <<>>
    /\ Engine(play_card(RE, sockOf[k], players[sockOf[k]].playable_cards[1]),
              "play_card", sockOf[k])
    /\ matchPlays' = matchPlays + 1
    /\ UNCHANGED <<write_connected, awaiting_reconnection, started, min_players, bummerl, authPc,
                   sockOf, alive, regs, timeouts, exitReason, authOrder, exited, exitCtl,
                   distributed, altPlays, extraCmds, ejVars>>

\* A disconnect handler that waits for the player whenever its last socket has
\* left, also when no socket is left at all
DisconnectAwaitsAlways(k) ==
    /\ Running
    /\ k \in alive
    /\ alive' = alive \ {k}
    /\ write_connected' = [write_connected EXCEPT ![sockOf[k]] = <<@[1] \ {k}>>]
    /\ IF SocketsOf(write_connected, sockOf[k]) # {k}
       THEN UNCHANGED <<timers, exited, exitReason>>
       ELSE /\ Len(timers) < MaxTimers
            /\ timers' = Append(timers, NewTimer("reconnect", sockOf[k], started))
            /\ UNCHANGED <<exited, exitReason>>
    /\ UNCHANGED <<awaiting_reconnection, started, min_players, bummerl, authPc, sockOf, regs,
                   timeouts, authOrder, matchPlays, exitCtl, reVars, reCtl, ejVars>>

\* setup_disconnect_handle, lines 575-602: the socket leaves the sockets of its
\* player; when it was the last one, the match exits if no socket is left at
\* all, otherwise reconnect_or_timeout is spawned
Disconnect(k) ==
    /\ Running
    /\ k \in alive
    /\ alive' = alive \ {k}
    /\ write_connected' = [write_connected EXCEPT ![sockOf[k]] = <<@[1] \ {k}>>]
    /\ IF SocketsOf(write_connected, sockOf[k]) # {k}
       THEN UNCHANGED <<timers, exited, exitReason>>
       ELSE IF AllSockets(write_connected) = {k}
       THEN Exit(AbruptClose) /\ UNCHANGED timers
       ELSE /\ Len(timers) < MaxTimers
            /\ timers' = Append(timers, NewTimer("reconnect", sockOf[k], started))
            /\ UNCHANGED <<exited, exitReason>>
    /\ UNCHANGED <<awaiting_reconnection, started, min_players, bummerl, authPc, sockOf, regs,
                   timeouts, authOrder, matchPlays, exitCtl, reVars, reCtl, ejVars>>

\* reconnect_or_timeout, lines 608-613: the Sender of a new channel is stored
\* for the player; a Sender it replaces is dropped
ReconnectInsert(t) ==
    /\ Running
    /\ t \in DOMAIN timers
    /\ timers[t].kind = "reconnect" /\ timers[t].st = "spawned"
    /\ timers' = [signal(timers, awaiting_reconnection[timers[t].player])
                    EXCEPT ![t].st = "waiting"]
    /\ awaiting_reconnection' = [awaiting_reconnection EXCEPT ![timers[t].player] = t]
    /\ UNCHANGED <<write_connected, started, min_players, bummerl, authPc, sockOf, alive, regs,
                   timeouts, exitReason, authOrder, matchPlays, exited, exitCtl,
                   reVars, reCtl, ejVars>>

\* play_card_or_timeout, lines 330-347: on_play_card is registered and the
\* task goes on to await_timeout
MoveArm(t) ==
    /\ Running
    /\ t \in DOMAIN timers
    /\ timers[t].kind = "move" /\ timers[t].st = "spawned"
    /\ ~panicked
    /\ timers' = [timers EXCEPT ![t].st = "waiting"]
    /\ UNCHANGED <<write_connected, awaiting_reconnection, started, min_players, bummerl, authPc,
                   sockOf, alive, regs, timeouts, exitReason, authOrder, matchPlays,
                   exited, exitCtl, reVars, reCtl, ejVars>>

\* await_timeout, lines 354-394.  A task whose channel is signalled takes the
\* first branch of select!, which does nothing: it is finished and never fires.
\* Otherwise FORCE_MOVE_TIMEOUT passes: timeout_player emits "timeout" to every
\* socket, and the match exits with the result when fewer than min_players
\* players have a key in write_connected or the match has not started
TimerFire(t) ==
    /\ Running
    /\ t \in DOMAIN timers
    /\ timers[t].st = "waiting" /\ ~timers[t].signalled
    /\ timers' = [timers EXCEPT ![t].st = "fired"]
    /\ timeouts' = IF AllSockets(write_connected) # {}
                   THEN timeouts \cup {timers[t].player} ELSE timeouts
    /\ IF Cardinality(ConnectedKeys(write_connected)) < min_players \/ ~started
       THEN Exit(TimeoutResult(write_connected))
       ELSE UNCHANGED <<exited, exitReason>>
    /\ UNCHANGED <<write_connected, awaiting_reconnection, started, min_players, bummerl, authPc,
                   sockOf, alive, regs, authOrder, matchPlays, exitCtl,
                   reVars, reCtl, ejVars>>

InitMatch ==
    /\ InitRE /\ InitEJ /\ InitMO /\ InitMM
    /\ min_players \in 1..MaxMinPlayers /\ bummerl = TRUE

NextMatch ==
    \/ \E k \in Sockets, p \in PlayerIds : AuthAccess(k, p)
    \/ \E k \in Sockets : AuthAgain(k)
    \/ \E k \in Sockets : AuthUnknown(k)
    \/ \E k \in Sockets : AuthCheck(k)
    \/ \E k \in Sockets : MatchPlay(k)
    \/ \E k \in Sockets : Disconnect(k)
    \/ \E t \in 1..MaxTimers : ReconnectInsert(t)
    \/ \E t \in 1..MaxTimers : MoveArm(t)
    \/ \E t \in 1..MaxTimers : TimerFire(t)

SpecMatch == InitMatch /\ [][NextMatch]_vars

\* Performer::close_talon, lines 154-160: the function returns CallError and
\* never calls the instance
performer_close_talon(s, p) == [s |-> s, res |-> "CallError"]

\* ------------------------------------------------------ end of the match

\* on_match_result, lines 211-235: in bummerl mode the next round is spawned
\* and the function returns; otherwise it goes on to exit
ends_match(mode) == ~mode

\* to_bummerl_points
to_bummerl_points(points) == IF points >= 66 THEN 3 ELSE IF points >= 33 THEN 2 ELSE 1

\* SchnapsenDuo::calc_points, called at line 237; its body is not part of the
\* sources: the comparison of update_points without its events
calc_points(s) == compare_points(s, round_points(s.players[1]), round_points(s.players[2]))

\* on_match_result, lines 241-255
MatchResultOf(points) ==
    [ok |-> TRUE, reason |-> "MatchResult",
     winners |-> [p \in {points.winner} |-> to_bummerl_points(points.winner_points)],
     losers |-> [p \in {points.loser} |-> to_bummerl_points(points.loser_points)]]

\* setup_match_final_result_handler, lines 280-291
FinalResultOf(f) ==
    [ok |-> TRUE, reason |-> "MatchResult",
     winners |-> [p \in {f.winner} |-> f.ranked[f.winner]],
     losers |-> [p \in {Other(f.winner)} |-> f.ranked[Other(f.winner)]]]

\* The task of a Result event outside bummerl mode: on_match_result locks the
\* instance, which panics in the task when the mutex is poisoned, and exits
\* with the MatchResult
MatchResultExit(winner) ==
    /\ Running
    /\ ends_match(bummerl)
    /\ winner \in pendingRounds
    /\ pendingRounds' = pendingRounds \ {winner}
    /\ IF panicked THEN UNCHANGED <<exited, exitReason>>
       ELSE Exit(MatchResultOf(calc_points(RE)))
    /\ UNCHANGED <<reVars, panicked, events, lastCmd, lastRes, distributed, altPlays,
                   extraCmds, pendingFinal, returned, ejVars, exitCtl,
                   write_connected, awaiting_reconnection, started, min_players, bummerl,
                   timers, authPc, sockOf, alive, regs, timeouts, authOrder, matchPlays>>

\* The task of a FinalResult event: the handler exits with the ranking
FinalResultExit(f) ==
    /\ Running
    /\ f \in pendingFinal
    /\ pendingFinal' = pendingFinal \ {f}
    /\ Exit(FinalResultOf(f))
    /\ UNCHANGED <<reVars, panicked, events, lastCmd, lastRes, distributed, altPlays,
                   extraCmds, pendingRounds, returned, ejVars, exitCtl,
                   write_connected, awaiting_reconnection, started, min_players, bummerl,
                   timers, authPc, sockOf, alive, regs, timeouts, authOrder, matchPlays>>

FinalEvents ==
    {[winner |-> w, ranked |-> r] : w \in PlayerIds,
                                    r \in [PlayerIds -> 0..(2 * MatchPoints)]}

\* The first deal of a match in either mode, in which both players hold
\* MaxCarried points
InitMode ==
    /\ InitEngine(MaxCarried)
    /\ deck = ShuffledDeck(0)
    /\ InitEJ /\ InitMO /\ InitMM
    /\ min_players = Cardinality(PlayerIds) /\ bummerl \in BOOLEAN

NextMode ==
    \/ Next
    \/ \E winner \in PlayerIds : MatchResultExit(winner)
    \/ \E f \in FinalEvents : FinalResultExit(f)

SpecMode == InitMode /\ [][NextMode]_vars

\* ------------------------------------------------- rule engine: properties

\* The events of one name among the events of a command
EventsNamed(evs, name) == SelectSeq(evs, LAMBDA e : e.name = name)

\* The left-hand side of the conservation equation
CardCount ==
    Len(players[1].cards) + Len(players[2].cards) + Len(deck) + Len(stack)
    + (IF trump # <<>> THEN 1 ELSE 0)
    + 2 * Len(players[1].tricks) + 2 * Len(players[2].tricks)

\* C1: in every reachable state the hands, the deck, the stack, the trump and
\* the cards of the tricks add up to 20 cards.
C1_Conservation == CardCount = DeckSize

C3_PlayableSucceeds ==
    \A p \in PlayerIds : \A c \in Range(players[p].playable_cards) :
        play_card(RE, p, c).res = "Ok"

\* C4 as stated: play_card fails with CantPlayCard for every player and every
\* card outside that player's playable_cards.
C4_Original ==
    \A p \in PlayerIds : \A c \in Cards :
        ~Contains(players[p].playable_cards, c) => play_card(RE, p, c).res = "CantPlayCard"

\* C4: play_card fails with CantPlayCard for the active player and every card
\* outside that player's playable_cards; for a player who is not active it
\* fails with PlayerNotActive whatever the card.
C4_Amended ==
    \A p \in PlayerIds : \A c \in Cards :
        /\ (active = p /\ ~Contains(players[p].playable_cards, c))
              => play_card(RE, p, c).res = "CantPlayCard"
        /\ active # p => play_card(RE, p, c).res = "PlayerNotActive"

\* The active player holds a card that must not be played.
C4_HeldNotPlayable ==
    /\ active # NoPlayer
    /\ \E c \in Range(players[active].cards) :
          /\ ~Contains(players[active].playable_cards, c)
          /\ play_card(RE, active, c).res = "CantPlayCard"

\* A command result that is a PlayerError left the instance as it was.
Untouched(r) == (r.res # "Ok" /\ r.res # "panic") => Fields(r.s) = Fields(RE)

\* C5: a command that returns a PlayerError leaves the instance as it was before
\* the call; play_card returns no error once the card is on the stack.
C5_ErrorLeavesState ==
    /\ \A p \in PlayerIds : \A c \in Cards :
          Untouched(play_card(RE, p, c)) /\ Untouched(swap_trump(RE, p, c))
    /\ \A p \in PlayerIds : \A cards \in MarriagePairs : Untouched(announce_20(RE, p, cards))
    /\ \A p \in PlayerIds :
          /\ Untouched(close_talon(RE, p))
          /\ Untouched(announce_40(RE, p))
          /\ Untouched(draw_card_after_trick(RE, p))
          /\ Untouched(set_active_player(RE, p))
          /\ \A k \in 0..MaxCutArg :
                Untouched(cutt_deck(RE, p, k)) /\ Untouched(take_cards_til(RE, p, k, FALSE))
    /\ Untouched(distribute_cards(RE))

\* C6: a successful swap_trump(p, c) makes c, the Jack of the trump suit from
\* p's hand, the trump, puts the previous trump into p's hand and takes c out
\* of it, so that hand and trump together hold the same cards as before.
C6_SwapTrumpExchanges ==
    [][(lastCmd'.name = "swap_trump" /\ lastRes' = "Ok")
       => LET p == lastCmd'.player
              c == trump'[1]
              old == trump[1]
          IN /\ c.value = Jack /\ c.suit = old.suit
             /\ Contains(players[p].cards, c)
             /\ Contains(players'[p].cards, old)
             /\ ~Contains(players'[p].cards, c)
             /\ Len(players'[p].cards) = Len(players[p].cards)
             /\ Range(players'[p].cards) \cup {c} = Range(players[p].cards) \cup {old}]_vars

\* The step is a play_card that puts the second card on the stack.
SecondCardPlayed == lastCmd'.name = "play_card" /\ Len(stack) = 1

\* The card a play_card step put on the stack
PlayedCard == EventsNamed(events', "PlayCard")[1].arg.card

\* Exactly one player's tricks grew by the pair of the stack card and the
\* played card, the other player's tricks are as before.
OneTrickGrown ==
    \E w \in PlayerIds :
        /\ \/ players'[w].tricks = Append(players[w].tricks, <<stack[1], PlayedCard>>)
           \/ players'[w].tricks = Append(players[w].tricks, <<PlayedCard, stack[1]>>)
        /\ players'[Other(w)].tricks = players[Other(w)].tricks

\* C7 as stated: the second card on the stack gives exactly one player one more
\* trick, the pair of the two stack cards, leaves the other player's tricks as
\* they were and empties the stack.
C7_Original == [][SecondCardPlayed => (OneTrickGrown /\ stack' = <<>>)]_vars

\* C7: when the second card is put on the stack the stack is empty on return;
\* if the trick does not end the round, exactly one player's tricks grew by the
\* pair of the two stack cards and the other player's are unchanged; if it ends
\* the round, both players' tricks are empty.
C7_Amended ==
    [][SecondCardPlayed
       => /\ stack' = <<>>
          /\ IF EventsNamed(events', "Result") = <<>> THEN OneTrickGrown
             ELSE \A p \in PlayerIds : players'[p].tricks = <<>>]_vars

\* A trick was resolved without ending the round.
C7_TrickTaken ==
    /\ lastCmd.name = "play_card"
    /\ EventsNamed(events, "Trick") # <<>>
    /\ EventsNamed(events, "Result") = <<>>
    /\ stack = <<>>
    /\ \E p \in PlayerIds : players[p].tricks # <<>>

\* The tricks of p when the trick of this step is added to them
TricksWithLast(p) ==
    LET trick == EventsNamed(events', "Trick")[1].arg
    IN IF trick.user_id = p THEN Append(players[p].tricks, trick.cards)
       ELSE players[p].tricks

\* The round points of p at the end of the round this step ends
RoundPoints(p) == trick_points(TricksWithLast(p))

\* The step ends a round.
RoundEnds == lastCmd'.name = "play_card" /\ EventsNamed(events', "Result") # <<>>

RoundWinner == EventsNamed(events', "Result")[1].arg.winner

\* The winner's cumulative points grow by n, the loser's stay.
WinnerGains(n) ==
    /\ players'[RoundWinner].points = players[RoundWinner].points + n
    /\ players'[Other(RoundWinner)].points = players[Other(RoundWinner)].points

\* 3, 2 or 1 from the round points of the loser
GainFrom(loser_round_points) ==
    IF loser_round_points = 0 THEN 3 ELSE IF loser_round_points >= 33 THEN 2 ELSE 1

\* C8 as stated: at every round end the winner's cumulative points grow by 3, 2
\* or 1 as the loser's round points are 0, at least 33, or in between, and the
\* loser's cumulative points do not change.
C8_Original == [][RoundEnds => WinnerGains(GainFrom(RoundPoints(Other(RoundWinner))))]_vars

\* C8: at a round end with a player at 66 round points or more the winner's
\* cumulative points grow by 3, 2 or 1 as the loser's round points are 0, at
\* least 33, or in between; at a round end by exhaustion of a hand they grow by
\* 3 whatever the loser's round points; the loser's cumulative points do not
\* change.
C8_Amended ==
    [][RoundEnds
       => IF \E p \in PlayerIds : RoundPoints(p) >= 66
          THEN WinnerGains(GainFrom(RoundPoints(Other(RoundWinner))))
          ELSE WinnerGains(3)]_vars

\* A round ended by exhaustion with the loser holding round points.
C8_ExhaustedRound ==
    /\ EventsNamed(events, "Result") # <<>>
    /\ \A i \in DOMAIN events : events[i].name = "Score" => events[i].arg.points < 66
    /\ \E i \in DOMAIN events : events[i].name = "Score" /\ events[i].arg.points > 0
                                /\ events[i].arg.user_id
                                     # EventsNamed(events, "Result")[1].arg.winner

\* ------------------------------------------ exit and journal: properties

\* C9: under every interleaving of exit calls, every callback registered before
\* the first exit call began is invoked exactly once (never twice, and once as
\* soon as a call has run through), and an exit call that begins after another
\* has returned invokes no callback.
C9_ExitOnce ==
    /\ \A c \in CallbackIds : invoked[c] <= 1
    /\ (\E t \in ExitCalls : pc[t] = "done") => \A c \in regBeforeExit : invoked[c] = 1
    /\ \A t \in ExitCalls : late[t] => invokedBy[t] = <<>>

\* Two calls raced past the test of exited, the registered callbacks were
\* invoked, and a later call returned at once.
C9_RacedAndLate ==
    /\ exited = 2
    /\ regBeforeExit = CallbackIds
    /\ \E t, u, v \in ExitCalls :
          /\ t # u
          /\ pc[t] = "done" /\ pc[u] = "done"
          /\ Len(invokedBy[t]) = MaxCallbacks
          /\ late[v] /\ pc[v] = "returned"

\* C10: events_since(t, v) returns exactly the entries of all() with a
\* timestamp of at least t that are public or private for v, in journal order:
\* nothing when t is later than every timestamp, and every visible entry of
\* timestamp t when several share it.
C10_EventsSince ==
    query.asked =>
        replay = SelectSeq(all(journal),
                    LAMBDA e : /\ e.timestamp >= query.timestamp
                               /\ (e.user = NoPlayer \/ e.user = query.user_id))

\* C11: after any sequence of log calls with arbitrary timestamps the journal is
\* sorted by non-decreasing timestamp, and entries of equal timestamp stand in
\* the order in which they were appended (id is the number of the append).
C11_JournalSorted ==
    \A i, j \in DOMAIN journal :
        i < j => /\ journal[i].timestamp <= journal[j].timestamp
                 /\ (journal[i].timestamp = journal[j].timestamp
                        => journal[i].id < journal[j].id)

\* ------------------------------------------------- orchestrator: properties

\* C12: when the match exits and no player has authenticated a socket, the
\* exit callbacks receive MatchAbruptClose with the reason AllPlayersDisconnected.
C12_NoJoinAbruptClose ==
    (exited > 0 /\ authOrder = <<>>) => exitReason = <<AbruptClose>>

\* Both players have a socket in write_connected.
BothConnected == \A p \in PlayerIds : SocketsOf(write_connected, p) # {}

\* The MatchResult in which p is the loser with 0 and the other player the
\* winner with 0.
LoserResult(p) ==
    [ok |-> TRUE, reason |-> "MatchResult",
     winners |-> [q \in {Other(p)} |-> 0], losers |-> [q \in {p} |-> 0]]

\* C13: when both players are connected, the match has started and the 30 s of
\* a player p who got AllowPlayCard pass without a card of p, the match exits
\* with a MatchResult in which p is a loser with 0 and the other player a
\* winner with 0.
C13_MoveTimeoutEndsMatch ==
    [][\A t \in DOMAIN timers :
          (/\ timers[t].kind = "move" /\ timers[t].st = "waiting"
           /\ timers'[t].st = "fired"
           /\ started /\ BothConnected)
          => (exited' > 0 /\ exitReason' = <<LoserResult(timers[t].player)>>)]_vars

\* C14: a reconnect task that was spawned after the match started, for a
\* player who authenticated a new socket before the 30 s of the task had
\* passed, emits no timeout, whatever the order of the disconnect handler, the
\* task and the auth handler; the match does not exit on its account.
C14_ReconnectNoTimeout ==
    \A t \in DOMAIN timers :
        (timers[t].kind = "reconnect" /\ timers[t].live /\ timers[t].reauthed)
        => timers[t].st # "fired"

\* C15: the player that start_match makes active is the first player who
\* authenticated.
C15_FirstAuthedActive ==
    [][(~started /\ started') => active' = authOrder[1]]_vars

\* ------------------------------------------------ announcements and talon

\* The last command was an announcement that succeeded.
Announced == lastCmd.name \in {"announce_20", "announce_40"} /\ lastRes = "Ok"

\* The Announce event of the last command
AnnounceEvent == EventsNamed(events, "Announce")[1].arg

AnnouncedCards == AnnounceEvent.announcement.cards

\* C16: after a successful announce_20 or announce_40 of player p, the
\* playable cards of p are restricted to the two announced cards.
C16_AnnounceRestrictsPlayable ==
    Announced =>
        \A i \in DOMAIN players[lastCmd.player].playable_cards :
            players[lastCmd.player].playable_cards[i] \in {AnnouncedCards[1], AnnouncedCards[2]}

\* C17: a player announces each suit at most once in a round: in the state
\* after a successful announcement, an announce_20 of the same pair fails, and
\* so does an announce_40 when the pair is of the trump suit.
C17_NoRepeatedAnnouncement ==
    Announced =>
        /\ announce_20(RE, lastCmd.player, AnnouncedCards).res # "Ok"
        /\ AnnouncedCards[1].suit = TrumpSuit(RE) => announce_40(RE, lastCmd.player).res # "Ok"

\* C18: a successful announce_40 yields the King and the Queen of the current
\* trump suit (the suit of trump, else of the taken trump), both in the hand
\* of the announcing player, who is the active player.
C18_FortyIsTrumpMarriage ==
    (lastCmd.name = "announce_40" /\ lastRes = "Ok") =>
        /\ AnnounceEvent.user_id = lastCmd.player
        /\ lastCmd.player = active
        /\ AnnounceEvent.announcement.announce_type = Forty
        /\ {AnnouncedCards[1].value, AnnouncedCards[2].value} = {King, Queen}
        /\ \A i \in 1..2 :
              /\ AnnouncedCards[i].suit = TrumpSuit(RE)
              /\ Contains(players[lastCmd.player].cards, AnnouncedCards[i])

\* An announce_40 has succeeded.
C18_FortyAnnounced == lastCmd.name = "announce_40" /\ lastRes = "Ok"

\* A draw_card_after_trick of player p in this state returns res and leaves
\* the instance as it is.
DrawRefused(p, res) ==
    /\ draw_card_after_trick(RE, p).res = res
    /\ Fields(draw_card_after_trick(RE, p).s) = Fields(RE)

\* C19: once the talon is closed, every draw_card_after_trick fails with
\* TalonAlreadyClosed and leaves deck, trump and hands unchanged.
C19_Original ==
    closed_talon # NoPlayer => \A p \in PlayerIds : DrawRefused(p, "TalonAlreadyClosed")

\* C19, amended: once the talon is closed, every draw_card_after_trick fails
\* and leaves the instance unchanged; the error is CantTakeCardHaveAlreadyFive
\* for a player who holds five cards, else CantTakeCardDeckEmpty when no trump
\* is on the table, else TalonAlreadyClosed.
C19_Amended ==
    closed_talon # NoPlayer =>
        \A p \in PlayerIds :
            DrawRefused(p, IF Len(players[p].cards) = HandSize
                           THEN "CantTakeCardHaveAlreadyFive"
                           ELSE IF trump = <<>> THEN "CantTakeCardDeckEmpty"
                           ELSE "TalonAlreadyClosed")

\* The talon was closed with one card left in the deck, and a player with
\* fewer than five cards is refused with TalonAlreadyClosed.
C19_ClosedAtLastCard ==
    /\ closed_talon # NoPlayer
    /\ Len(deck) = 1
    /\ \E p \in PlayerIds : /\ Len(players[p].cards) < HandSize
                            /\ DrawRefused(p, "TalonAlreadyClosed")

\* ------------------------------------------------------------- next round

\* A next_round step of a match in which no player has reached MatchPoints
NextRoundStep ==
    /\ lastCmd'.name = "next_round" /\ ~panicked
    /\ \A p \in PlayerIds : players[p].points < MatchPoints

\* C20: after a round with winner A and nobody at 7 points, next_round(A)
\* completes without an error, A is the active player, and the cards are
\* dealt afresh: five cards in each hand, one trump, nine cards in the deck,
\* the stack empty, the talon open, no tricks and no announcements, and the
\* points of both players as they were.
C20_NextRoundDeals ==
    [][NextRoundStep =>
          /\ lastRes' = "Ok" /\ ~panicked'
          /\ active' = lastCmd'.player
          /\ \A p \in PlayerIds :
                /\ Len(players'[p].cards) = HandSize
                /\ players'[p].tricks = <<>>
                /\ players'[p].announcements = <<>>
                /\ players'[p].points = players[p].points
          /\ trump' # <<>>
          /\ Len(deck') = DeckSize - 2 * HandSize - 1
          /\ stack' = <<>>
          /\ closed_talon' = NoPlayer]_vars

\* ------------------------------------------------------------- round end

\* Some player holds MatchPoints or more.
MatchDecided == \E p \in PlayerIds : players[p].points >= MatchPoints

RuleWinner(lead, response, trumpSuit, leadP, respP) ==
    IF lead.suit = trumpSuit /\ response.suit # trumpSuit THEN leadP
    ELSE IF response.suit = trumpSuit /\ lead.suit # trumpSuit THEN respP
    ELSE IF response.suit # lead.suit THEN leadP
    ELSE IF response.value > lead.value THEN respP
    ELSE leadP

\* C22: for every two distinct cards and every trump suit, the trick goes to
\* the player of the only trump card, else to the lead when the response is
\* of another suit, else to the player of the higher card
\* (Jack 2 < Queen 3 < King 4 < Ten 10 < Ace 11).
C22_TrickWinner ==
    (Len(stack) = 2 /\ returned # <<>>) =>
        returned[1] = RuleWinner(stack[1], stack[2], TrumpSuit(RE), Other(active), active)

\* A trick with a response of the lead's suit that is higher, no trump involved
C22_HigherFollowWins ==
    /\ Len(stack) = 2 /\ returned = <<active>>
    /\ stack[1].suit = stack[2].suit /\ stack[1].suit # TrumpSuit(RE)
    /\ stack[1].value = Ten /\ stack[2].value = Ace

\* -------------------------------------------------------------- turn order

\* A play_card step that put the lead card of a trick on the stack
LeadPlayed == lastCmd'.name = "play_card" /\ stack = <<>> /\ Len(stack') = 1

\* A play_card step that resolved a trick without ending the round
TrickResolved ==
    /\ lastCmd'.name = "play_card"
    /\ EventsNamed(events', "Trick") # <<>>
    /\ EventsNamed(events', "Result") = <<>>

\* C23: after the lead card of a trick the other player is the active player,
\* and after a trick that does not end the round the player who took the
\* trick is the active player when play_card returns.
C23_TurnOrder ==
    [][/\ LeadPlayed => active' = Other(lastCmd'.player)
       /\ TrickResolved => active' = EventsNamed(events', "Trick")[1].arg.user_id]_vars

\* ---------------------------------------------------------- playable cards

\* The cards of one suit in a sequence of cards
SuitCards(cards, su) == {c \in Range(cards) : c.suit = su}

\* The talon is used up (the trump was taken) or closed.
TalonGone == taken_trump # <<>> \/ closed_talon # NoPlayer

\* The cards the rules let the player play: on a lead with the talon gone the
\* cards of the lead's suit, else the trumps, else the hand; otherwise the hand.
RulePlayable(p) ==
    IF stack # <<>> /\ TalonGone
    THEN IF SuitCards(players[p].cards, stack[1].suit) # {}
         THEN SuitCards(players[p].cards, stack[1].suit)
         ELSE IF SuitCards(players[p].cards, TrumpSuit(RE)) # {}
         THEN SuitCards(players[p].cards, TrumpSuit(RE))
         ELSE Range(players[p].cards)
    ELSE Range(players[p].cards)

\* C24: the playable cards of the player to move are, on a lead with the
\* talon used up or closed, the hand cards of the lead's suit if there is
\* one, else the hand cards of the trump suit if there is one, else the whole
\* hand; with an empty stack, or with the trump face-up and the talon open,
\* they are the whole hand.
C24_PlayableCards ==
    (active # NoPlayer /\ distributed /\ ~panicked) =>
        Range(players[active].playable_cards) = RulePlayable(active)

\* The player to move answers a lead with the talon gone and holds cards of
\* the lead's suit and of other suits, or trumps and other cards and none of
\* the lead's suit
C24_MustFollow ==
    /\ active # NoPlayer /\ distributed /\ ~panicked
    /\ stack # <<>> /\ TalonGone
    /\ RulePlayable(active) # Range(players[active].cards)
    /\ Range(players[active].playable_cards) = RulePlayable(active)

\* The cards among those the follow-suit rule allows that would take the trick
\* against the lead
WinningCards(p) ==
    {c \in RulePlayable(p) : RuleWinner(stack[1], c, TrumpSuit(RE), Other(p), p) = p}

\* C25: with the talon closed and a lead on the stack, the playable cards of
\* the responder are all cards that take the trick, whenever the cards the
\* follow-suit rule allows include one.
C25_MustWinWhenClosed ==
    (/\ active # NoPlayer /\ distributed /\ ~panicked
     /\ closed_talon # NoPlayer /\ stack # <<>>
     /\ WinningCards(active) # {})
    => Range(players[active].playable_cards) \subseteq WinningCards(active)

\* The instance after player p announced the pair, led card and the other
\* player answered with reply (each command applied only if the one before
\* returned Ok)
AnnounceThenTrick(p, pair, card, reply) ==
    LET a == announce_20(RE, p, pair)
        l == play_card(a.s, p, card)
        t == play_card(l.s, Other(p), reply)
    IN [ok |-> a.res = "Ok" /\ l.res = "Ok" /\ t.res = "Ok" /\ ~t.s.panicked,
        s |-> t.s]

\* The points the Score events of the instance report for player p
ScoresOf(s, p) ==
    {s.ev[i].arg.points : i \in {j \in DOMAIN s.ev :
                                    s.ev[j].name = "Score" /\ s.ev[j].arg.user_id = p}}

\* C26: the round points a round-end check reports for a player are the values
\* of the cards in the player's tricks plus 20 for every successful announce_20
\* (40 for announce_40) of the player in this round, the announcements counted
\* once the player has a trick. Stated for the check of the first trick after
\* an announce_20: the announcer leads, takes the trick, and has announced
\* nothing else in a round without earlier tricks of the announcer.
C26_AnnouncementCounts ==
    (distributed /\ ~panicked /\ active # NoPlayer /\ stack = <<>>
        /\ players[active].tricks = <<>>)
    => \A pair \in MarriagePairs, card \in Range(players[active].cards),
          reply \in Range(players[Other(active)].cards) :
          LET r == AnnounceThenTrick(active, pair, card, reply)
          IN (r.ok /\ r.s.players[active].tricks # <<>>)
             => ScoresOf(r.s, active) = {trick_points(r.s.players[active].tricks) + Twenty}

\* The step ends a round by exhaustion of the hands: nobody is at 66.
ExhaustedRoundEnds == RoundEnds /\ \A p \in PlayerIds : RoundPoints(p) < 66

\* The player with the most round points at the end of the round this step
\* ends (player 2 on a tie, as max_by_key keeps the last maximum)
PointsLeader == IF RoundPoints(2) >= RoundPoints(1) THEN 2 ELSE 1

\* The player who took the trick of this step
LastTrickTaker == EventsNamed(events', "Trick")[1].arg.user_id

StartStep ==
    /\ \E k \in Sockets : authPc[k] \in {"check", "again"} /\ authPc'[k] # authPc[k]
    /\ <<reVars, panicked>>' # <<reVars, panicked>>

\* C29: under every interleaving of the auth messages of several sockets per
\* player, of a second auth of a socket and of an auth with an unknown token,
\* start_match is invoked at most once: the step that invokes it finds started
\* false and sets it, and started is never cleared.
C29_StartsOnce ==
    [][(StartStep => ~started /\ started') /\ (started => started')]_vars

\* The match was started and dealt after a socket had sent its token twice and
\* another socket had sent an unknown token.
C29_StartedAmongManyAuths ==
    /\ started /\ active # NoPlayer /\ ~panicked
    /\ \E k \in Sockets : authPc[k] = "redone"
    /\ \E k \in Sockets : authPc[k] = "done" /\ sockOf[k] = NoPlayer

\* C30: start_match is invoked only in a state in which the match has not
\* exited and every player has a socket that is connected; a player whose
\* sockets have all disconnected does not count.
C30_StartNeedsAllConnected ==
    [][StartStep => (exited <= 0 /\ \A p \in PlayerIds : SocketsOf(write_connected, p) # {})]_vars

\* ------------------------------------------------- end of the match: properties

\* The step runs the task of a Result event.
ResultTaskRuns == pendingRounds' # pendingRounds /\ pendingRounds' \subseteq pendingRounds
                    /\ lastCmd' = lastCmd /\ panicked' = panicked

\* The match has exited with a MatchResult.
ExitedWithResult == exited > 0 /\ exitReason # <<>> /\ exitReason[1].ok

C31_DrawNeedsTurn ==
    (distributed /\ ~panicked) =>
        \A p \in PlayerIds :
            (active # p \/ stack # <<>>) =>
                /\ draw_card_after_trick(RE, p).res \notin {"Ok", "panic"}
                /\ Fields(draw_card_after_trick(RE, p).s) = Fields(RE)

\* C32: a close_talon action of a socket of the active player, sent while the
\* deck is not empty, the stack is empty and the talon is open, reaches
\* close_talon of the instance: closed_talon becomes the player, CloseTalon is
\* emitted and no error goes back to the socket.
C32_CloseTalonRouted ==
    \A k \in alive :
        (/\ started /\ ~panicked /\ exited <= 0
         /\ sockOf[k] = active /\ deck # <<>> /\ stack = <<>> /\ closed_talon = NoPlayer)
        => /\ performer_close_talon(RE, sockOf[k]).res = "Ok"
           /\ performer_close_talon(RE, sockOf[k]).s.closed_talon = sockOf[k]
           /\ EventsNamed(performer_close_talon(RE, sockOf[k]).s.ev, "CloseTalon") # <<>>

\* ------------------------------------------------- sockets: properties

\* Socket k has sent a token that is no player's.
UnknownSocket(k) == authPc[k] # "new" /\ sockOf[k] = NoPlayer

\* C33: a socket that sends a token that is no player's is never among the
\* sockets of a player, has no action forwarded to the instance, and its
\* handle_auth never starts the match.
C33_UnknownTokenIgnored ==
    [][\A k \in Sockets :
          UnknownSocket(k) =>
              /\ k \notin AllSockets(write_connected') /\ k \notin alive'
              /\ authPc'[k] # authPc[k] =>
                    (started' = started /\ panicked' = panicked /\ reVars' = reVars)]_vars

\* ------------------------------------------------- journal: what a viewer sees

\* The replays events_since(t, v) can give on a journal
Replays(evs, t, v) ==
    {events_since(evs, t, v, idx) : idx \in search_indices(user_events(evs, v), t)}

\* The journal without the private entries of the players other than v
WithoutOthers(evs, v) == SelectSeq(evs, LAMBDA e : e.user = NoPlayer \/ e.user = v)

\* C34: for every journal and every viewer v, an unauthenticated one included,
\* the replay of events_since(t, v) holds no private entry of a player other
\* than v, and the journal gives v the same replays as the journal without the
\* private entries of the other players: journals that differ only in those
\* give v the same replay.
C34_ReplayHidesOthers ==
    /\ query.asked => \A i \in DOMAIN replay : replay[i].user \in {NoPlayer, query.user_id}
    /\ \A v \in Viewers, t \in 0..(MaxTs + 1) :
          Replays(journal, t, v) = Replays(WithoutOthers(journal, v), t, v)

\* A viewer asked for a replay from a journal that holds a later private entry
\* of another player, and got entries.
C34_OthersEntryWithheld ==
    /\ query.asked /\ replay # <<>>
    /\ \E i \in DOMAIN journal : /\ journal[i].user \notin {NoPlayer, query.user_id}
                                 /\ journal[i].timestamp >= query.timestamp

\* ------------------------------------------- the observers of one command

\* notify, lines 682-692: every callback of every event of a command runs in a
\* task of its own (tokio::task::spawn), so the tasks of one command run in any
\* order after the command.  The task of the journal (setup_event_log) builds
\* the TimedEvent itself: the timestamp is the second in which the task runs.
\* An entry names the command and the position of its event among the events
\* the command emitted.
observed(cmd, n) == [cmd |-> cmd, n |-> n]

\* The tasks of the last command that have not run yet
spawned_tasks(evs, cmd, jr) ==
    {i \in DOMAIN evs : \A j \in DOMAIN jr : jr[j].id # observed(cmd, i)}

\* The clock never runs backwards: a task reads a second that is not earlier
\* than the one any earlier task has read
seconds_from(jr) ==
    {ts \in 1..MaxTs : \A j \in DOMAIN jr : jr[j].timestamp <= ts}

\* The callback of setup_event_log in the task spawned for event i
LogTask(i, ts) ==
    /\ Len(journal) < MaxJournal
    /\ i \in spawned_tasks(events, lastCmd.name, journal)
    /\ ts \in seconds_from(journal)
    /\ journal' = log(journal, [user |-> events[i].to, timestamp |-> ts,
                                id |-> observed(lastCmd.name, i)])
    /\ UNCHANGED <<replay, query, reVars, reCtl, moVars>>

NextObserve ==
    \/ \E p \in PlayerIds : SetActivePlayer(p)
    \/ DistributeCards
    \/ \E i \in 1..MaxObserved, ts \in 1..MaxTs : LogTask(i, ts)

SpecObserve == Init /\ [][NextObserve]_vars

\* C35: the journal holds the events of one command in the order in which the
\* command emitted them, whatever the order in which their tasks ran.
C35_JournalKeepsEmissionOrder ==
    \A a, b \in DOMAIN journal :
        (a < b /\ journal[a].id.cmd = journal[b].id.cmd) => journal[a].id.n < journal[b].id.n

\* C36: once player p has played a card after its AllowPlayCard, no task that
\* play_card_or_timeout started for that AllowPlayCard times p out, whether the
\* task had registered its PlayCard observer before the play or not.
C36_PlayCancelsTimer ==
    [][\A t \in DOMAIN timers :
          (/\ timers[t].kind = "move"
           /\ lastCmd = [name |-> "play_card", player |-> timers[t].player]
           /\ lastRes = "Ok")
          => ~(timers[t].st # "fired" /\ timers'[t].st = "fired")]_vars

\* C37: when the reconnect task of player p, spawned after the match started,
\* lets its 30 s pass while p has no socket and the other player has one, a
\* timeout for p is emitted and the match exits with a MatchResult in which p
\* is a loser with 0 and the other player a winner.
C37_ReconnectTimeoutEnds ==
    [][\A t \in DOMAIN timers :
          (/\ timers[t].kind = "reconnect" /\ timers[t].live
           /\ timers[t].st = "waiting" /\ timers'[t].st = "fired"
           /\ exited = 0
           /\ SocketsOf(write_connected, timers[t].player) = {}
           /\ SocketsOf(write_connected, 3 - timers[t].player) # {})
          => /\ timers[t].player \in timeouts'
             /\ exited' > 0
             /\ exitReason' = <<TimeoutResult(write_connected)>>
             /\ timers[t].player \in DOMAIN exitReason'[1].losers
             /\ (3 - timers[t].player) \in DOMAIN exitReason'[1].winners]_vars

JackOfTrump == [value |-> Jack, suit |-> TrumpSuit(RE)]

\* The player has an entry of the suit in a list of announcements
OfSuit(announcements, su) ==
    \E i \in DOMAIN announcements : announcements[i].cards[1].suit = su

\* playable_cards of the player is the whole hand
PlayableIsHand(p) == Range(players[p].playable_cards) = Range(players[p].cards)

\* announcable has an entry of a suit exactly when the hand holds King and Queen
\* of the suit and the player has no announcement of the suit
AnnouncableIsFresh(p) ==
    \A su \in Suits :
        OfSuit(players[p].announcable, su)
        <=> /\ {[value |-> King, suit |-> su], [value |-> Queen, suit |-> su]}
                  \subseteq Range(players[p].cards)
            /\ ~OfSuit(players[p].announcements, su)

\* possible_trump_swap is the Jack of trump exactly when swap_trump of the
\* player with that Jack would succeed
SwapIsFresh(p) ==
    (players[p].possible_trump_swap = <<JackOfTrump>>)
    <=> (swap_trump(RE, p, JackOfTrump).res = "Ok")

\* C39: in every state a command leaves with player p active and the stack
\* empty, playable_cards, announcable and possible_trump_swap of p equal their
\* recomputation from the state.
C39_DerivedFieldsFresh ==
    (distributed /\ ~panicked /\ active # NoPlayer /\ stack = <<>>) =>
        /\ PlayableIsHand(active)
        /\ AnnouncableIsFresh(active)
        /\ SwapIsFresh(active)

\* ------------------------------------------------ public events to sockets

\* handle_auth, lines 630-638: every handle_auth that has passed
\* setup_private_access registers one more callback with on_pub_event, whatever
\* the token was.  The callbacks a socket has registered, by the position of
\* its handlers.
pub_callbacks(at) ==
    CASE at \in {"new", "check"} -> 0
      [] at \in {"done", "again"} -> 1
      [] at = "redone" -> 2

\* Each callback emits the event with socket.to(PUBLIC_EVENT_ROOM): to every
\* socket of the room but the socket of the callback (listen_for_access_events
\* has put every socket of the namespace in the room).  The copies of one
\* public event that the callbacks of the sockets ks emit.
RECURSIVE public_copies(_, _)
public_copies(at, ks) ==
    IF ks = {} THEN 0
    ELSE LET k == CHOOSE x \in ks : TRUE
         IN pub_callbacks(at[k]) + public_copies(at, ks \ {k})

\* The sockets of the room that have sent a token and have not left: the live
\* sockets of the players and the sockets whose token was no player's
InRoom(k) == k \in alive \/ (authPc[k] # "new" /\ sockOf[k] = NoPlayer)

\* C40: every public event of a command of the rule engine reaches every
\* socket that is connected to the namespace exactly once, however many
\* sockets have authenticated and whether the socket is authenticated or not.
C40_PublicEventOnce ==
    [][(events' # events /\ \E i \in DOMAIN events' : events'[i].to = NoPlayer)
         => \A j \in Sockets : InRoom(j)' => public_copies(authPc', Sockets \ {j}) = 1]_vars

====
